---- MODULE Spec2Model ----
(***************************************************************************)
(* Model of the LAFVIN PICO development kit firmware: the GT911 touch      *)
(* driver (gt911.c), the ST7796 display driver (st7796.c), the LVGL        *)
(* porting layer (lv_port_indev.c, lv_port_disp.c) and the two FreeRTOS    *)
(* tasks, the LVGL mutex and the button interrupt of main.c.               *)
(*                                                                         *)
(* Three specifications share the variables:                               *)
(*   SpecTouch  gt911_init, gt911_read_touch under touchpad_read           *)
(*   SpecDisp   disp_flush, disp_enable_update, disp_disable_update        *)
(*   SpecSys    task0, task1, lvgl_mutex, on_button_interrupt              *)
(* Each leaves the variables of the other two parts unchanged.             *)
(***************************************************************************)
EXTENDS Integers, Sequences, FiniteSets, TLC

VARIABLES
    \* ---- gt911.c
    gt911_dev,        \* static gt911_dev_t gt911_dev
    gt911_last_x,     \* static uint16_t last_x inside gt911_read_touch
    gt911_last_y,     \* static uint16_t last_y inside gt911_read_touch
    gt_call,          \* the most recent driver call: its return value, the
                      \* outputs it wrote and its I2C transactions in order
    \* ---- lv_port_indev.c
    last_x,           \* static int16_t last_x
    last_y,           \* static int16_t last_y
    indev_data,       \* the lv_indev_data_t filled by the last touchpad_read
    \* ---- history of the touch samples (not program state)
    seen_pressed,     \* the most recent successful pressed sample, if any
    prev_pressed,     \* the call before the most recent one was such a sample
    \* ---- lv_port_disp.c, st7796.c
    disp_flush_enabled,   \* static volatile bool disp_flush_enabled
    current_orientation,  \* static st7796_orientation_t current_orientation
    lcd,              \* the levels of the CS, DC and RST pins
    panel,            \* the display controller at the other end of the bus:
                      \* the command it is executing, its memory access
                      \* control and window registers, and the pixel bytes
                      \* of the memory write in progress
    disp_call,        \* the most recent display operation and, in program
                      \* order, the pin writes, delays, SPI transfers and
                      \* lv_disp_flush_ready calls it made
    \* ---- history of the flushed frames (not program state)
    flush_count,      \* disp_flush calls so far; call n carries frame n
    sent,             \* frames whose pixels went out on the SPI bus
    suppressed,       \* frames flushed while the output was disabled
    \* ---- main.c
    main_pc,          \* where main() is
    pc,               \* where task0 and task1 are
    lvgl_mutex,       \* the holder of lvgl_mutex: "free", "task0", "task1"
    screen,           \* what the active screen shows
    ui,               \* which of splash_image, led1, led2, joystick_ball
                      \* point to an object (FALSE: NULL)
    joystick_enabled, \* bool joystick_enabled
    ball,             \* task0's locals ball_x, ball_y
    joystick_pos,     \* the position of the joystick_ball object
    irq_enabled,      \* the button interrupts are enabled
    isr,              \* where on_button_interrupt is, and for which LED
    clock,            \* to_ms_since_boot(get_absolute_time())
    irq_count,        \* interrupts taken so far
    irq_call,         \* the arguments of the most recent on_button_interrupt
    btn_last_time,    \* btn1_last_time, btn2_last_time
    led_ui,           \* the on/off state of the led1, led2 objects
    led_gpio,         \* the levels of GPIO_LED_1, GPIO_LED_2
    null_calls,       \* engine calls made on a NULL object (history)
    map_call          \* the most recent call of map_adc_with_deadzone: its
                      \* arguments and, once it has returned, its result

touchVars == <<gt911_dev, gt911_last_x, gt911_last_y, gt_call,
               last_x, last_y, indev_data, seen_pressed, prev_pressed>>

dispVars == <<disp_flush_enabled, current_orientation, lcd, panel, disp_call,
              flush_count, sent, suppressed>>

sysVars == <<main_pc, pc, lvgl_mutex, screen, ui, joystick_enabled, ball,
             joystick_pos, irq_enabled, isr, clock, irq_count, irq_call,
             btn_last_time, led_ui, led_gpio, null_calls, map_call>>

vars == <<touchVars, dispVars, sysVars>>

(***************************************************************************)
(* gt911.h: register addresses and status bits                             *)
(***************************************************************************)
GT911_I2C_ADDR        == 93       \* 0x5D
GT911_PRODUCT_ID_LEN  == 4
GT911_REG_PRODUCT_ID1 == 33088    \* 0x8140
GT911_REG_X_RES_L     == 33094    \* 0x8146
GT911_REG_X_RES_H     == 33095    \* 0x8147
GT911_REG_Y_RES_L     == 33096    \* 0x8148
GT911_REG_Y_RES_H     == 33097    \* 0x8149
GT911_REG_VENDOR_ID   == 33098    \* 0x814A
GT911_REG_STATUS      == 33102    \* 0x814E
GT911_REG_PT1_X_L     == 33104    \* 0x8150
GT911_REG_PT1_X_H     == 33105    \* 0x8151
GT911_REG_PT1_Y_L     == 33106    \* 0x8152
GT911_REG_PT1_Y_H     == 33107    \* 0x8153
GT911_STATUS_BUF_READY == 128     \* 0x80
GT911_STATUS_PT_MASK  == 15       \* 0x0F

(***************************************************************************)
(* Byte and word arithmetic                                                *)
(***************************************************************************)
\* a & mask for a mask 2^k - 1
AndLow(a, mask) == a % (mask + 1)

\* a & bit for a single bit 2^k
AndBit(a, bit) == IF (a \div bit) % 2 = 1 THEN bit ELSE 0

\* (uint16_t)lo | ((uint16_t)hi << 8) for two bytes
OrShift8(lo, hi) == (lo + 256 * hi) % 65536

\* the value of an int16_t that is assigned a uint16_t
ToInt16(v) == IF v >= 32768 THEN v - 65536 ELSE v

(***************************************************************************)
(* I2C transactions.  A response is the byte the device returns, or        *)
(* I2C_FAIL when i2c_write_blocking / i2c_read_blocking returns < 0.       *)
(***************************************************************************)
I2C_FAIL == -1

\* one gt911_i2c_read_reg(reg, &data, 1) and what it returned
gt911_i2c_read_reg(reg, resp) ==
    [op |-> "read", reg |-> reg, val |-> resp, ok |-> resp >= 0]

\* the 3-byte write {0x81, 0x4E, 0x00} of gt911_clear_status; ack is what
\* the bus answered, which gt911_clear_status does not look at
ClearStatusWrite(ack) ==
    [op |-> "write", reg |-> GT911_REG_STATUS, val |-> 0, ok |-> ack]

gt911_clear_status_Twice(ack) == <<ClearStatusWrite(ack), ClearStatusWrite(ack)>>

gt911_clear_status(ack) == <<ClearStatusWrite(ack)>>

IsClear(tx) == tx.op = "write" /\ tx.reg = GT911_REG_STATUS /\ tx.val = 0

IsRead(tx, reg) == tx.op = "read" /\ tx.reg = reg

(***************************************************************************)
(* gt911_read_touch                                                        *)
(*                                                                         *)
(* The bus answers of one call are its input `in`:                         *)
(*   in.st  the answer to the status-register read                         *)
(*   in.wr  whether the status-clear write is acknowledged                 *)
(*   in.pt  the answers to the reads of 0x8150..0x8153, in that order      *)
(* The result is the return value, the outputs *x, *y, *pressed (wrote     *)
(* says whether the call assigned them), the I2C transactions in program   *)
(* order, and the new values of the static last_x, last_y.                 *)
(***************************************************************************)
TouchResult(ret, wrote, x, y, pressed, bus, lx, ly, status) ==
    [fn |-> "read", ret |-> ret, wrote |-> wrote, x |-> x, y |-> y,
     pressed |-> pressed, bus |-> bus, last_x |-> lx, last_y |-> ly,
     status |-> status]

\* line 136 with || replaced by &&
NeedsClear_And(status_reg) ==
    /\ AndBit(status_reg, GT911_STATUS_BUF_READY) # 0
    /\ AndLow(status_reg, GT911_STATUS_PT_MASK) < 6

\* the status cleared after every status read
NeedsClear_Always(status_reg) == TRUE

\* line 136: (status_reg & GT911_STATUS_BUF_READY) || (touch_count < 6)
NeedsClear(status_reg) ==
    \/ AndBit(status_reg, GT911_STATUS_BUF_READY) # 0
    \/ AndLow(status_reg, GT911_STATUS_PT_MASK) < 6

\* the coordinate bytes taken high byte first
Coord16_BigEndian(lo, hi) == OrShift8(hi, lo)

\* lines 148-153, 159-164: last = lo; last |= (uint16_t)hi << 8
Coord16(lo, hi) == OrShift8(lo, hi)

\* the branch on touch_count that does not look at the results of the
\* coordinate reads
ReadPoint1_IgnoreFailure(touch_count, lx, ly, pt, status) ==
    IF touch_count = 1
    THEN TouchResult(TRUE, TRUE, Coord16(pt[1] % 256, pt[2] % 256),
                     Coord16(pt[3] % 256, pt[4] % 256), TRUE,
                     <<gt911_i2c_read_reg(GT911_REG_PT1_X_L, pt[1]),
                       gt911_i2c_read_reg(GT911_REG_PT1_X_H, pt[2]),
                       gt911_i2c_read_reg(GT911_REG_PT1_Y_L, pt[3]),
                       gt911_i2c_read_reg(GT911_REG_PT1_Y_H, pt[4])>>,
                     Coord16(pt[1] % 256, pt[2] % 256),
                     Coord16(pt[3] % 256, pt[4] % 256), status)
    ELSE TouchResult(TRUE, TRUE, lx, ly, FALSE, <<>>, lx, ly, status)

\* lines 141-177: the branch on touch_count.  pt[k] is the answer to the
\* k-th coordinate read; a failed read returns false at once, after the
\* assignments to last_x / last_y made so far.
ReadPoint1(touch_count, lx, ly, pt, status) ==
    IF touch_count = 1
    THEN LET r1 == gt911_i2c_read_reg(GT911_REG_PT1_X_L, pt[1])
             r2 == gt911_i2c_read_reg(GT911_REG_PT1_X_H, pt[2])
             r3 == gt911_i2c_read_reg(GT911_REG_PT1_Y_L, pt[3])
             r4 == gt911_i2c_read_reg(GT911_REG_PT1_Y_H, pt[4])
             x1 == pt[1]
             x2 == Coord16(pt[1], pt[2])
             y1 == pt[3]
             y2 == Coord16(pt[3], pt[4])
         IN  IF ~r1.ok
             THEN TouchResult(FALSE, FALSE, 0, 0, FALSE, <<r1>>, lx, ly, status)
             ELSE IF ~r2.ok
             THEN TouchResult(FALSE, FALSE, 0, 0, FALSE, <<r1, r2>>, x1, ly, status)
             ELSE IF ~r3.ok
             THEN TouchResult(FALSE, FALSE, 0, 0, FALSE, <<r1, r2, r3>>, x2, ly, status)
             ELSE IF ~r4.ok
             THEN TouchResult(FALSE, FALSE, 0, 0, FALSE, <<r1, r2, r3, r4>>, x2, y1, status)
             ELSE TouchResult(TRUE, TRUE, x2, y2, TRUE, <<r1, r2, r3, r4>>, x2, y2, status)
    ELSE TouchResult(TRUE, TRUE, lx, ly, FALSE, <<>>, lx, ly, status)

\* the status clear moved behind the coordinate reads
TouchBus_ClearLast(st, clr, pt) == <<st>> \o pt \o clr

\* lines 126-165 in program order: the status read, the clear (if any),
\* the coordinate reads (if any)
TouchBus(st, clr, pt) == <<st>> \o clr \o pt

\* the read without the test of gt911_dev.initialized of lines 122-124
gt911_read_touch_NoInitCheck(dev, lx, ly, in) ==
    LET st == gt911_i2c_read_reg(GT911_REG_STATUS, in.st) IN
    IF ~st.ok
    THEN TouchResult(FALSE, FALSE, 0, 0, FALSE, <<st>>, lx, ly, I2C_FAIL)
    ELSE LET clr == IF NeedsClear(in.st)
                    THEN gt911_clear_status(in.wr) ELSE <<>>
             pt  == ReadPoint1(AndLow(in.st, GT911_STATUS_PT_MASK),
                               lx, ly, in.pt, in.st)
         IN  [pt EXCEPT !.bus = TouchBus(st, clr, pt.bus)]

\* lines 114-180
gt911_read_touch(dev, lx, ly, in) ==
    IF ~dev.initialized
    THEN TouchResult(FALSE, FALSE, 0, 0, FALSE, <<>>, lx, ly, I2C_FAIL)
    ELSE LET st == gt911_i2c_read_reg(GT911_REG_STATUS, in.st) IN
         IF ~st.ok
         THEN TouchResult(FALSE, FALSE, 0, 0, FALSE, <<st>>, lx, ly, I2C_FAIL)
         ELSE LET status_reg  == in.st
                  touch_count == AndLow(status_reg, GT911_STATUS_PT_MASK)
                  clr == IF NeedsClear(status_reg)
                         THEN gt911_clear_status(in.wr) ELSE <<>>
                  pt  == ReadPoint1(touch_count, lx, ly, in.pt, status_reg)
              IN  [pt EXCEPT !.bus = TouchBus(st, clr, pt.bus)]

(***************************************************************************)
(* gt911_init                                                              *)
(*                                                                         *)
(* in.i2c_init: i2c_init returned a non-zero baudrate.  in.rd: the answers *)
(* to the ten register reads, in program order.                            *)
(***************************************************************************)
\* the registers gt911_init reads, in order (lines 60, 66-70, 74, 80-96)
InitRegs ==
    <<GT911_REG_PRODUCT_ID1,
      GT911_REG_PRODUCT_ID1, GT911_REG_PRODUCT_ID1 + 1,
      GT911_REG_PRODUCT_ID1 + 2, GT911_REG_PRODUCT_ID1 + 3,
      GT911_REG_VENDOR_ID,
      GT911_REG_X_RES_L, GT911_REG_X_RES_H,
      GT911_REG_Y_RES_L, GT911_REG_Y_RES_H>>

\* all ten reads are issued whatever they return
ReadsIssued_All(rd) == Len(rd)

\* how many of the reads are issued: up to and including the first failure
ReadsIssued(rd) ==
    IF \E i \in 1..Len(rd) : rd[i] < 0
    THEN CHOOSE i \in 1..Len(rd) : rd[i] < 0 /\ \A j \in 1..(i - 1) : rd[j] >= 0
    ELSE Len(rd)

InitResult(ret, bus, dev) ==
    [fn |-> "init", ret |-> ret, wrote |-> FALSE, x |-> 0, y |-> 0,
     pressed |-> FALSE, bus |-> bus, dev |-> dev]

\* the init without the early return of lines 50-52 for a driver that is
\* initialized already
gt911_init_NoGuard(dev, in) ==
    IF ~in.i2c_init THEN InitResult(FALSE, <<>>, dev)
    ELSE LET n   == ReadsIssued(in.rd)
             ok  == \A i \in 1..Len(in.rd) : in.rd[i] >= 0
             \* the number of reads that succeeded
             k   == IF ok THEN n ELSE n - 1
             bus == [i \in 1..n |-> gt911_i2c_read_reg(InitRegs[i], in.rd[i])]
             pid == [i \in 1..(GT911_PRODUCT_ID_LEN + 1) |->
                        IF i <= GT911_PRODUCT_ID_LEN /\ i + 1 <= k
                        THEN in.rd[i + 1]
                        ELSE IF i = GT911_PRODUCT_ID_LEN + 1 /\ k >= 5
                        THEN 0
                        ELSE dev.product_id[i]]
             mx  == IF k >= 8 THEN OrShift8(in.rd[7], in.rd[8])
                    ELSE IF k >= 7 THEN in.rd[7] ELSE dev.max_x
             my  == IF k >= 10 THEN OrShift8(in.rd[9], in.rd[10])
                    ELSE IF k >= 9 THEN in.rd[9] ELSE dev.max_y
         IN  InitResult(ok, bus,
                        [dev EXCEPT !.initialized = ok, !.product_id = pid,
                                    !.max_x = mx, !.max_y = my])

\* lines 45-105
gt911_init(dev, in) ==
    IF dev.initialized THEN InitResult(TRUE, <<>>, dev)
    ELSE IF ~in.i2c_init THEN InitResult(FALSE, <<>>, dev)
    ELSE LET n   == ReadsIssued(in.rd)
             ok  == \A i \in 1..Len(in.rd) : in.rd[i] >= 0
             \* the number of reads that succeeded
             k   == IF ok THEN n ELSE n - 1
             bus == [i \in 1..n |-> gt911_i2c_read_reg(InitRegs[i], in.rd[i])]
             pid == [i \in 1..(GT911_PRODUCT_ID_LEN + 1) |->
                        IF i <= GT911_PRODUCT_ID_LEN /\ i + 1 <= k
                        THEN in.rd[i + 1]
                        ELSE IF i = GT911_PRODUCT_ID_LEN + 1 /\ k >= 5
                        THEN 0
                        ELSE dev.product_id[i]]
             mx  == IF k >= 8 THEN OrShift8(in.rd[7], in.rd[8])
                    ELSE IF k >= 7 THEN in.rd[7] ELSE dev.max_x
             my  == IF k >= 10 THEN OrShift8(in.rd[9], in.rd[10])
                    ELSE IF k >= 9 THEN in.rd[9] ELSE dev.max_y
         IN  InitResult(ok, bus,
                        [dev EXCEPT !.initialized = ok, !.product_id = pid,
                                    !.max_x = mx, !.max_y = my])

(***************************************************************************)
(* lv_port_indev.c: touchpad_read                                          *)
(***************************************************************************)
LV_INDEV_STATE_REL == "REL"
LV_INDEV_STATE_PR  == "PR"

\* lines 72-100; r is what gt911_read_touch returned and wrote.  point.x,
\* point.y are lv_coord_t and last_x, last_y int16_t, both 16 bit signed.
touchpad_read(r, cx, cy) ==
    IF r.ret /\ r.pressed
    THEN [point_x |-> ToInt16(r.x), point_y |-> ToInt16(r.y),
          state |-> LV_INDEV_STATE_PR, continue_reading |-> FALSE,
          last_x |-> ToInt16(r.x), last_y |-> ToInt16(r.y)]
    ELSE [point_x |-> cx, point_y |-> cy,
          state |-> LV_INDEV_STATE_REL, continue_reading |-> FALSE,
          last_x |-> cx, last_y |-> cy]

(***************************************************************************)
(* The bus answers the touch specification draws from                      *)
(***************************************************************************)
\* status bytes: every point count class (0, 1, 2..5, 6..15) with bit 7
\* clear and set, and three bytes with other flag bits set (0x41, 0x70,
\* 0x76)
StatusBytes == {0, 1, 2, 5, 6, 15, 128, 129, 130, 133, 134, 143, 65, 112, 118}

\* point-1 registers (X low, X high, Y low, Y high):
\* (100,200), (0,0), (300,400) and (32768,65535), which is beyond int16_t
PointSamples ==
    {<<100, 0, 200, 0>>, <<0, 0, 0, 0>>, <<44, 1, 144, 1>>,
     <<0, 128, 255, 255>>}

NoPoint == <<0, 0, 0, 0>>

\* the answers when the k-th coordinate read fails
FailAt(p, k) ==
    [i \in 1..4 |-> IF i < k THEN p[i] ELSE IF i = k THEN I2C_FAIL ELSE 0]

TouchInputs ==
    {[st |-> I2C_FAIL, wr |-> TRUE, pt |-> NoPoint]}
    \cup {[st |-> s, wr |-> w, pt |-> NoPoint] :
             s \in {b \in StatusBytes : b % 16 # 1}, w \in BOOLEAN}
    \cup {[st |-> s, wr |-> w, pt |-> p] :
             s \in {b \in StatusBytes : b % 16 = 1}, w \in BOOLEAN,
             p \in PointSamples \cup
                   {FailAt(q, k) : q \in PointSamples, k \in 1..4}}

\* registers 0x8140 (probe), 0x8140..0x8143 "911", 0x814A, and the
\* resolution 320 x 480 (0x0140, 0x01E0), low byte first
InitImage == <<57, 57, 49, 49, 0, 0, 64, 1, 224, 1>>

InitFailAt(k) ==
    [i \in 1..10 |-> IF i < k THEN InitImage[i]
                     ELSE IF i = k THEN I2C_FAIL ELSE 0]

InitInputs ==
    {[i2c_init |-> FALSE, rd |-> InitImage]}
    \cup {[i2c_init |-> TRUE, rd |-> r] :
             r \in {InitImage} \cup {InitFailAt(k) : k \in 1..10}}

(***************************************************************************)
(* The touch specification                                                 *)
(***************************************************************************)
NoCall ==
    [fn |-> "none", ret |-> FALSE, wrote |-> FALSE, x |-> 0, y |-> 0,
     pressed |-> FALSE, bus |-> <<>>, status |-> I2C_FAIL]

NoData ==
    [point_x |-> 0, point_y |-> 0, state |-> LV_INDEV_STATE_REL,
     continue_reading |-> FALSE]

TouchInit ==
    /\ gt911_dev = [initialized |-> FALSE, product_id |-> <<0, 0, 0, 0, 0>>,
                    max_x |-> 0, max_y |-> 0, i2c_addr |-> GT911_I2C_ADDR]
    /\ gt911_last_x = 0
    /\ gt911_last_y = 0
    /\ gt_call = NoCall
    /\ last_x = 0
    /\ last_y = 0
    /\ indev_data = NoData
    /\ seen_pressed = [seen |-> FALSE, x |-> 0, y |-> 0]
    /\ prev_pressed = FALSE

\* main.c line 637: lv_port_indev_init -> touchpad_init -> gt911_init, whose
\* result touchpad_init drops (lv_port_indev.c lines 59-64)
LvPortIndevInit ==
    /\ gt_call.fn = "none"
    /\ \E in \in InitInputs :
          \E r \in {gt911_init(gt911_dev, in)} :
          /\ gt911_dev' = r.dev
          /\ gt_call' = [fn |-> r.fn, ret |-> r.ret, wrote |-> r.wrote,
                         x |-> r.x, y |-> r.y, pressed |-> r.pressed,
                         bus |-> r.bus, status |-> I2C_FAIL]
    /\ prev_pressed' = FALSE
    /\ UNCHANGED <<gt911_last_x, gt911_last_y, last_x, last_y, indev_data,
                   seen_pressed>>
    /\ UNCHANGED <<dispVars, sysVars>>

\* one poll of the input device by the engine: touchpad_read, which calls
\* gt911_read_touch
TouchpadRead ==
    /\ gt_call.fn # "none"
    /\ \E in \in TouchInputs :
          \E r \in {gt911_read_touch(gt911_dev, gt911_last_x, gt911_last_y, in)} :
          \E d \in {touchpad_read(r, last_x, last_y)} :
              /\ gt911_last_x' = r.last_x
              /\ gt911_last_y' = r.last_y
              /\ gt_call' = [fn |-> r.fn, ret |-> r.ret, wrote |-> r.wrote,
                             x |-> r.x, y |-> r.y, pressed |-> r.pressed,
                             bus |-> r.bus, status |-> r.status]
              /\ last_x' = d.last_x
              /\ last_y' = d.last_y
              /\ indev_data' = [point_x |-> d.point_x, point_y |-> d.point_y,
                                state |-> d.state,
                                continue_reading |-> d.continue_reading]
              /\ seen_pressed' = IF r.ret /\ r.pressed
                                 THEN [seen |-> TRUE, x |-> r.x, y |-> r.y]
                                 ELSE seen_pressed
    /\ prev_pressed' = (gt_call.fn = "read" /\ gt_call.ret /\ gt_call.pressed)
    /\ UNCHANGED gt911_dev
    /\ UNCHANGED <<dispVars, sysVars>>

(***************************************************************************)
(* st7796.c.  A display operation is the sequence of its pin writes,       *)
(* delays and SPI transfers in program order.  An event is                 *)
(*   pin write   [ev "cs" | "dc" | "rst", val level]                       *)
(*   delay       [ev "delay", val microseconds]                            *)
(*   SPI write   [ev "spi", data bytes, len byte count, frame f]           *)
(*               a pixel transfer carries no byte values: frame names the  *)
(*               buffer it is read from (0 for command and payload bytes)  *)
(*               val is 1 when the byte sent is the cmd argument of        *)
(*               st7796_write_cmd, 0 for every other buffer                *)
(*   completion  [ev "ready"]   lv_disp_flush_ready                        *)
(***************************************************************************)
ST7796_WIDTH     == 320
ST7796_HEIGHT    == 480
ST7796_CMD_CASET == 42      \* 0x2A
ST7796_CMD_RASET == 43      \* 0x2B
ST7796_CMD_RAMWR == 44      \* 0x2C
ST7796_CMD_INVON  == 33     \* 0x21
ST7796_CMD_MADCTL == 54     \* 0x36
ST7796_PORTRAIT  == 0
ST7796_LANDSCAPE == 1
ST7796_PORTRAIT_INV  == 2
ST7796_LANDSCAPE_INV == 3

Ev(ev, val, data, len, frame) ==
    [ev |-> ev, val |-> val, data |-> data, len |-> len, frame |-> frame]

LCD_CS_LOW   == Ev("cs", 0, <<>>, 0, 0)
LCD_CS_HIGH  == Ev("cs", 1, <<>>, 0, 0)
LCD_DC_CMD   == Ev("dc", 0, <<>>, 0, 0)
LCD_DC_DATA  == Ev("dc", 1, <<>>, 0, 0)
sleep_us(us) == Ev("delay", us, <<>>, 0, 0)

\* spi_write_blocking of the bytes `data`
SpiBytes(data) == Ev("spi", 0, data, Len(data), 0)

\* spi_write_blocking of len bytes read from the pixel buffer of frame f
SpiPixels(f, len) == Ev("spi", 0, <<>>, len, f)

\* spi_write_blocking(ST7796_SPI_PORT, &cmd, 1) of st7796_write_cmd
SpiCmd(cmd) == [SpiBytes(<<cmd>>) EXCEPT !.val = 1]

\* the command sent with the DC pin at data
st7796_write_cmd_DcData(cmd) ==
    <<LCD_CS_LOW, LCD_DC_DATA, sleep_us(1), SpiCmd(cmd), sleep_us(1),
      LCD_CS_HIGH>>

\* lines 253-263
st7796_write_cmd(cmd) ==
    <<LCD_CS_LOW, LCD_DC_CMD, sleep_us(1), SpiCmd(cmd), sleep_us(1),
      LCD_CS_HIGH>>

\* lines 270-284
st7796_write_data(data) ==
    IF Len(data) = 0 THEN <<>>
    ELSE <<LCD_CS_LOW, LCD_DC_DATA, sleep_us(1), SpiBytes(data), sleep_us(1),
           LCD_CS_HIGH>>

\* (v >> 8) & 0xFF and v & 0xFF
HighByte(v) == (v \div 256) % 256
LowByte(v)  == v % 256

\* the window set to (x1,x2,y1,y2): columns and rows exchanged
st7796_set_window_Swapped(x1, y1, x2, y2) ==
    st7796_write_cmd(ST7796_CMD_CASET)
    \o st7796_write_data(<<HighByte(y1), LowByte(y1), HighByte(y2), LowByte(y2)>>)
    \o st7796_write_cmd(ST7796_CMD_RASET)
    \o st7796_write_data(<<HighByte(x1), LowByte(x1), HighByte(x2), LowByte(x2)>>)
    \o st7796_write_cmd(ST7796_CMD_RAMWR)

\* the window without the final memory-write command
st7796_set_window_NoRamwr(x1, y1, x2, y2) ==
    st7796_write_cmd(ST7796_CMD_CASET)
    \o st7796_write_data(<<HighByte(x1), LowByte(x1), HighByte(x2), LowByte(x2)>>)
    \o st7796_write_cmd(ST7796_CMD_RASET)
    \o st7796_write_data(<<HighByte(y1), LowByte(y1), HighByte(y2), LowByte(y2)>>)

\* lines 199-221; the arguments are uint16_t
st7796_set_window(x1, y1, x2, y2) ==
    st7796_write_cmd(ST7796_CMD_CASET)
    \o st7796_write_data(<<HighByte(x1), LowByte(x1), HighByte(x2), LowByte(x2)>>)
    \o st7796_write_cmd(ST7796_CMD_RASET)
    \o st7796_write_data(<<HighByte(y1), LowByte(y1), HighByte(y2), LowByte(y2)>>)
    \o st7796_write_cmd(ST7796_CMD_RAMWR)

\* a uint32_t as its two 16 bit halves, hi * 2^16 + lo: the values from 2^31
\* on are beyond the integers TLC computes with
U32(hi, lo) == [hi |-> hi, lo |-> lo]

\* the conversion of a non-negative int below 2^31 to uint32_t
ToU32(n) == U32(n \div 65536, n % 65536)

\* len * 2 in uint32_t arithmetic: the carry out of bit 31 is lost
U32Mul2(len) ==
    U32((2 * len.hi + (2 * len.lo) \div 65536) % 65536, (2 * len.lo) % 65536)

\* the value of a uint32_t below 2^31
U32Value(u) == u.hi * 65536 + u.lo

\* lines 229-243; color is [null, frame], len a uint32_t pixel count.  The
\* byte count len * 2 of line 240 is a uint32_t product, converted to the
\* 32 bit size_t parameter of spi_write_blocking.
st7796_write_color(color, len) ==
    IF len = U32(0, 0) \/ color.null THEN <<>>
    ELSE <<LCD_CS_LOW, LCD_DC_DATA,
           SpiPixels(color.frame, U32Value(U32Mul2(len))), LCD_CS_HIGH>>

\* the landscape orientation without the row/column exchange bit
MadctlValue_NoExchange(orientation) ==
    CASE orientation = ST7796_PORTRAIT      -> 72
      [] orientation = ST7796_LANDSCAPE     -> 8
      [] orientation = ST7796_PORTRAIT_INV  -> 136
      [] orientation = ST7796_LANDSCAPE_INV -> 232
      [] OTHER                              -> 72

\* lines 168-184: the MADCTL value of an orientation
MadctlValue(orientation) ==
    CASE orientation = ST7796_PORTRAIT      -> 72     \* 0x48
      [] orientation = ST7796_LANDSCAPE     -> 40     \* 0x28
      [] orientation = ST7796_PORTRAIT_INV  -> 136    \* 0x88
      [] orientation = ST7796_LANDSCAPE_INV -> 232    \* 0xE8
      [] OTHER                              -> 72

\* lines 151-190 (the assignment to current_orientation of line 153 is made
\* by the caller of this operator): the MADCTL command, then its value in a
\* transaction without settling delays
st7796_set_orientation(orientation) ==
    st7796_write_cmd(ST7796_CMD_MADCTL)
    \o <<LCD_CS_LOW, LCD_DC_DATA, SpiBytes(<<MadctlValue(orientation)>>),
         LCD_CS_HIGH>>

\* gpio_put(ST7796_PIN_RST, level)
LcdRst(level) == Ev("rst", level, <<>>, 0, 0)

sleep_ms(ms) == Ev("delay", ms * 1000, <<>>, 0, 0)

\* lines 290-300
st7796_hw_reset ==
    <<LcdRst(1), sleep_ms(100), LcdRst(0), sleep_ms(100), LcdRst(1),
      sleep_ms(100)>>

\* lines 305-321: CS, DC and RST are made outputs and driven high
st7796_gpio_init == <<LCD_CS_HIGH, LCD_DC_DATA, LcdRst(1)>>

InitCmd(cmd, data, databytes) ==
    [cmd |-> cmd, data |-> data, databytes |-> databytes]

\* lines 74-119: init_cmds, its last entry the end marker {0, {0}, 0xFF}
init_cmds ==
    <<InitCmd(207, <<0, 131, 48>>, 3),
      InitCmd(237, <<100, 3, 18, 129>>, 4),
      InitCmd(232, <<133, 1, 121>>, 3),
      InitCmd(203, <<57, 44, 0, 52, 2>>, 5),
      InitCmd(247, <<32>>, 1),
      InitCmd(234, <<0, 0>>, 2),
      InitCmd(192, <<38>>, 1),
      InitCmd(193, <<17>>, 1),
      InitCmd(197, <<53, 62>>, 2),
      InitCmd(199, <<190>>, 1),
      InitCmd(54, <<40>>, 1),
      InitCmd(58, <<5>>, 1),
      InitCmd(177, <<0, 27>>, 2),
      InitCmd(242, <<8>>, 1),
      InitCmd(38, <<1>>, 1),
      InitCmd(224, <<31, 26, 24, 10, 15, 6, 69, 135, 50, 10, 7, 2, 7, 5, 0>>, 15),
      InitCmd(225, <<0, 37, 39, 5, 16, 9, 58, 120, 77, 5, 24, 13, 56, 58, 31>>, 15),
      InitCmd(42, <<0, 0, 0, 239>>, 4),
      InitCmd(43, <<0, 0, 1, 63>>, 4),
      InitCmd(44, <<0>>, 0),
      InitCmd(183, <<7>>, 1),
      InitCmd(182, <<10, 130, 39, 0>>, 4),
      InitCmd(17, <<0>>, 128),
      InitCmd(41, <<0>>, 128),
      InitCmd(0, <<0>>, 255)>>

\* the first n bytes of the 16 byte array data[16], whose elements beyond
\* the initializer are zero
DataBytes(data, n) ==
    [i \in 1..n |-> IF i <= Len(data) THEN data[i] ELSE 0]

\* lines 124-135: one entry of the table
SendInitCmd(c) ==
    st7796_write_cmd(c.cmd)
    \o (IF c.databytes % 32 > 0
        THEN st7796_write_data(DataBytes(c.data, c.databytes % 32))
        ELSE <<>>)
    \o (IF (c.databytes \div 128) % 2 = 1 THEN <<sleep_ms(100)>> ELSE <<>>)

RECURSIVE SendInitCmds(_)
\* lines 122-138: the entries in table order, up to the end marker
SendInitCmds(cmds) ==
    IF Head(cmds).databytes = 255 THEN <<>>
    ELSE SendInitCmd(Head(cmds)) \o SendInitCmds(Tail(cmds))

\* the orientation set before the table is sent
st7796_init_OrientationFirst ==
    st7796_gpio_init
    \o st7796_hw_reset
    \o st7796_set_orientation(ST7796_PORTRAIT)
    \o SendInitCmds(init_cmds)
    \o st7796_write_cmd(ST7796_CMD_INVON)

\* lines 61-145
st7796_init ==
    st7796_gpio_init
    \o st7796_hw_reset
    \o SendInitCmds(init_cmds)
    \o st7796_set_orientation(ST7796_PORTRAIT)
    \o st7796_write_cmd(ST7796_CMD_INVON)

(***************************************************************************)
(* lv_port_disp.c                                                          *)
(***************************************************************************)
\* lv_area.h: (lv_coord_t)(area->x2 - area->x1 + 1)
lv_area_get_width(area) == ToInt16((area.x2 - area.x1 + 1) % 65536)

\* lv_area.h: (lv_coord_t)(area->y2 - area->y1 + 1)
lv_area_get_height(area) == ToInt16((area.y2 - area.y1 + 1) % 65536)

lv_disp_flush_ready == Ev("ready", 0, <<>>, 0, 0)

\* the flush without the early completion on the disabled path
disp_flush_NoReadyWhenDisabled(enabled, area, color_p) ==
    IF ~enabled THEN <<>>
    ELSE st7796_set_window(area.x1 % 65536, area.y1 % 65536,
                           area.x2 % 65536, area.y2 % 65536)
         \o st7796_write_color(color_p,
               ToU32(lv_area_get_width(area) * lv_area_get_height(area)))
         \o <<lv_disp_flush_ready>>

\* the flush without the test of disp_flush_enabled
disp_flush_Ungated(enabled, area, color_p) ==
    st7796_set_window(area.x1 % 65536, area.y1 % 65536,
                      area.x2 % 65536, area.y2 % 65536)
    \o st7796_write_color(color_p,
          ToU32(lv_area_get_width(area) * lv_area_get_height(area)))
    \o <<lv_disp_flush_ready>>

\* lines 151-173; enabled is disp_flush_enabled as read at line 154, the
\* lv_coord_t coordinates are converted to uint16_t for st7796_set_window
\* and the int product of width and height, which is positive and below
\* 2^31 for the areas here, to uint32_t
disp_flush(enabled, area, color_p) ==
    IF ~enabled THEN <<lv_disp_flush_ready>>
    ELSE st7796_set_window(area.x1 % 65536, area.y1 % 65536,
                           area.x2 % 65536, area.y2 % 65536)
         \o st7796_write_color(color_p,
               ToU32(lv_area_get_width(area) * lv_area_get_height(area)))
         \o <<lv_disp_flush_ready>>

\* the level of pin `pin` after the events of log, starting from level
LevelAfter(pin, level, log) ==
    LET at == {i \in DOMAIN log : log[i].ev = pin} IN
    IF at = {} THEN level
    ELSE log[CHOOSE i \in at : \A j \in at : j <= i].val

\* the frames whose pixels the events of log put on the bus
FramesIn(log) ==
    {log[i].frame : i \in {j \in DOMAIN log : log[j].ev = "spi" /\ log[j].frame # 0}}

(***************************************************************************)
(* The controller that receives the bus traffic.  st7796.h lines 41-44     *)
(* name the commands it decodes, st7796.c lines 160-166 the bits of its    *)
(* memory access control register:                                         *)
(*   bit7 MY row address order, bit6 MX column address order,              *)
(*   bit5 MV row/column exchange                                           *)
(* A byte sent with DC low is a command, a byte sent with DC high is a     *)
(* parameter of the command before it; after the memory-write command the  *)
(* bytes are pixels, stored through the window with the column advancing   *)
(* first.                                                                  *)
(***************************************************************************)
MadctlMY(m) == (m \div 128) % 2
MadctlMX(m) == (m \div 64) % 2
MadctlMV(m) == (m \div 32) % 2

\* one byte b arrives with the DC pin at level dc
PanelByte(p, dc, b) ==
    IF dc = 0
    THEN [p EXCEPT !.cmd = b, !.args = <<>>, !.burst = 0, !.more = FALSE]
    ELSE IF p.cmd \notin {ST7796_CMD_CASET, ST7796_CMD_RASET, ST7796_CMD_MADCTL}
            \/ Len(p.args) >= 4
         THEN p
         ELSE LET a == Append(p.args, b) IN
              IF p.cmd = ST7796_CMD_MADCTL
              THEN IF Len(a) = 1 THEN [p EXCEPT !.args = a, !.madctl = b]
                   ELSE p
              ELSE IF Len(a) < 4 THEN [p EXCEPT !.args = a]
              ELSE IF p.cmd = ST7796_CMD_CASET
                   THEN [p EXCEPT !.args = a,
                                  !.xs = 256 * a[1] + a[2],
                                  !.xe = 256 * a[3] + a[4]]
                   ELSE [p EXCEPT !.args = a,
                                  !.ys = 256 * a[1] + a[2],
                                  !.ye = 256 * a[3] + a[4]]

RECURSIVE PanelBytes(_, _, _)
PanelBytes(p, dc, data) ==
    IF data = <<>> THEN p
    ELSE PanelBytes(PanelByte(p, dc, Head(data)), dc, Tail(data))

\* len bytes of a pixel buffer arrive: the first burst after the
\* memory-write command is counted, a further one is only noted
PanelPixels(p, dc, len) ==
    IF dc = 0 THEN [p EXCEPT !.cmd = -1, !.args = <<>>, !.burst = 0,
                             !.more = FALSE]
    ELSE IF p.cmd # ST7796_CMD_RAMWR THEN p
    ELSE IF p.burst = 0 THEN [p EXCEPT !.burst = len]
    ELSE [p EXCEPT !.more = TRUE]

\* one event e of the bus log arrives while the pins are at `pins`; the
\* controller listens only while CS is low
PanelEvent(p, pins, e) ==
    IF e.ev # "spi" \/ pins.cs # 0 THEN p
    ELSE IF e.data = <<>> THEN PanelPixels(p, pins.dc, e.len)
    ELSE PanelBytes(p, pins.dc, e.data)

\* the levels of CS and DC after the events of log
PinsAfter(pins, log) ==
    [cs |-> LevelAfter("cs", pins.cs, log),
     dc |-> LevelAfter("dc", pins.dc, log)]

RECURSIVE PanelSpan(_, _, _, _, _)
\* the controller after the events i..j of log, in order, the pins being at
\* `pins` before event i.  The span is taken in halves, the first half
\* evaluated to a value q before the second starts from it, which keeps
\* the evaluation shallow.
PanelSpan(p, pins, log, i, j) ==
    IF i > j THEN p
    ELSE IF i = j THEN PanelEvent(p, pins, log[i])
    ELSE CHOOSE r \in
            {PanelSpan(q, PinsAfter(pins, SubSeq(log, i, (i + j) \div 2)),
                       log, (i + j) \div 2 + 1, j) :
                q \in {PanelSpan(p, pins, log, i, (i + j) \div 2)}} : TRUE

\* the controller after the events of log
PanelFeed(p, pins, log) == PanelSpan(p, pins, log, 1, Len(log))

\* the controller after a hardware reset
PanelReset ==
    [cmd |-> 0, args |-> <<>>, madctl |-> 0,
     xs |-> 0, xe |-> ST7796_WIDTH - 1, ys |-> 0, ye |-> ST7796_HEIGHT - 1,
     burst |-> 0, more |-> FALSE]

\* the panel memory cell, <<column, row>>, that receives pixel k (from 0)
\* of the memory write in progress
PanelAddr(p, k) ==
    LET w   == p.xe - p.xs + 1
        col == p.xs + (k % w)
        row == p.ys + (k \div w)
        c0  == IF MadctlMV(p.madctl) = 1 THEN row ELSE col
        r0  == IF MadctlMV(p.madctl) = 1 THEN col ELSE row
    IN  <<IF MadctlMX(p.madctl) = 1 THEN ST7796_WIDTH - 1 - c0 ELSE c0,
          IF MadctlMY(p.madctl) = 1 THEN ST7796_HEIGHT - 1 - r0 ELSE r0>>

(***************************************************************************)
(* The areas the engine flushes: inside the 320 x 480 panel, x1 <= x2,     *)
(* y1 <= y2, and no larger than the draw buffer of MY_DISP_HOR_RES * 10    *)
(* pixels (lv_port_disp.c lines 73-74)                                     *)
(***************************************************************************)
DrawBufRows == 10

XCoords == {0, 255, ST7796_WIDTH - 1}
YCoords == {0, 9, ST7796_HEIGHT - 1}

FlushAreas ==
    {a \in [x1 : XCoords, y1 : YCoords, x2 : XCoords, y2 : YCoords] :
        /\ a.x1 <= a.x2
        /\ a.y1 <= a.y2
        /\ (a.x2 - a.x1 + 1) * (a.y2 - a.y1 + 1) <= ST7796_WIDTH * DrawBufRows}

\* the number of disp_flush calls the display specification follows
MaxFlush == 3

NoArea == [x1 |-> 0, y1 |-> 0, x2 |-> 0, y2 |-> 0]

DispInit ==
    /\ disp_flush_enabled = TRUE
    /\ current_orientation = ST7796_PORTRAIT
    \* after st7796_init, whose last transaction is st7796_write_cmd(0x21)
    /\ lcd = [cs |-> 1, dc |-> 0, rst |-> 1]
    /\ panel = PanelFeed(PanelReset, [cs |-> 1, dc |-> 1], st7796_init)
    /\ disp_call = [fn |-> "none", area |-> NoArea, log |-> <<>>]
    /\ flush_count = 0
    /\ sent = {}
    /\ suppressed = {}

\* the engine calls disp_flush with an area and the draw buffer, which
\* holds frame flush_count + 1
DispFlush ==
    /\ flush_count < MaxFlush
    /\ \E area \in FlushAreas :
       \E log \in {disp_flush(disp_flush_enabled, area,
                              [null |-> FALSE, frame |-> flush_count + 1])} :
          /\ disp_call' = [fn |-> "flush", area |-> area, log |-> log]
          /\ lcd' = [cs  |-> LevelAfter("cs", lcd.cs, log),
                     dc  |-> LevelAfter("dc", lcd.dc, log),
                     rst |-> LevelAfter("rst", lcd.rst, log)]
          /\ panel' = PanelFeed(panel, [cs |-> lcd.cs, dc |-> lcd.dc], log)
          /\ sent' = sent \cup FramesIn(log)
    /\ flush_count' = flush_count + 1
    /\ suppressed' = IF disp_flush_enabled THEN suppressed
                     ELSE suppressed \cup {flush_count + 1}
    /\ UNCHANGED <<disp_flush_enabled, current_orientation>>
    /\ UNCHANGED <<touchVars, sysVars>>

\* lines 115-118
DispEnableUpdate ==
    /\ disp_flush_enabled' = TRUE
    /\ disp_call' = [fn |-> "enable", area |-> NoArea, log |-> <<>>]
    /\ UNCHANGED <<current_orientation, lcd, panel, flush_count, sent,
                   suppressed>>
    /\ UNCHANGED <<touchVars, sysVars>>

\* lines 124-127
DispDisableUpdate ==
    /\ disp_flush_enabled' = FALSE
    /\ disp_call' = [fn |-> "disable", area |-> NoArea, log |-> <<>>]
    /\ UNCHANGED <<current_orientation, lcd, panel, flush_count, sent,
                   suppressed>>
    /\ UNCHANGED <<touchVars, sysVars>>

(***************************************************************************)
(* The driver interface of st7796.h as a collaborator may call it, with    *)
(* any arguments of the parameter types                                    *)
(***************************************************************************)
\* the pin levels after the events of log
LcdAfter(log) ==
    [cs  |-> LevelAfter("cs", lcd.cs, log),
     dc  |-> LevelAfter("dc", lcd.dc, log),
     rst |-> LevelAfter("rst", lcd.rst, log)]

\* the controller after the events of log
PanelAfter(log) == PanelFeed(panel, [cs |-> lcd.cs, dc |-> lcd.dc], log)

\* st7796_init()
St7796Init ==
    /\ disp_call' = [fn |-> "init", area |-> NoArea, log |-> st7796_init]
    /\ lcd' = LcdAfter(st7796_init)
    /\ panel' = PanelAfter(st7796_init)
    /\ current_orientation' = ST7796_PORTRAIT
    /\ UNCHANGED <<disp_flush_enabled, flush_count, sent, suppressed>>
    /\ UNCHANGED <<touchVars, sysVars>>

\* the values of an st7796_orientation_t argument: the four enumerators and
\* a value that is none of them
OrientationArgs ==
    {ST7796_PORTRAIT, ST7796_LANDSCAPE, ST7796_PORTRAIT_INV,
     ST7796_LANDSCAPE_INV, ST7796_LANDSCAPE_INV + 1}

\* st7796_set_orientation(orientation)
St7796SetOrientation ==
    /\ \E orientation \in OrientationArgs :
       \E log \in {st7796_set_orientation(orientation)} :
          /\ current_orientation' = orientation
          /\ disp_call' = [fn |-> "set_orientation", area |-> NoArea,
                           log |-> log]
          /\ lcd' = LcdAfter(log)
          /\ panel' = PanelAfter(log)
    /\ UNCHANGED <<disp_flush_enabled, flush_count, sent, suppressed>>
    /\ UNCHANGED <<touchVars, sysVars>>

Window(x1, y1, x2, y2) == [x1 |-> x1, y1 |-> y1, x2 |-> x2, y2 |-> y2]

\* uint16_t arguments of st7796_set_window: the whole panel upright and on
\* its side, one pixel, one row, and windows that are reversed or reach
\* beyond the panel, with high bytes 0x00, 0x01 and 0xFF
WindowArgs ==
    {Window(0, 0, ST7796_WIDTH - 1, ST7796_HEIGHT - 1),
     Window(0, 0, ST7796_HEIGHT - 1, ST7796_WIDTH - 1),
     Window(0, 0, 0, 0),
     Window(0, ST7796_HEIGHT - 1, ST7796_WIDTH - 1, ST7796_HEIGHT - 1),
     Window(ST7796_HEIGHT - 1, ST7796_WIDTH - 1, 0, 0),
     Window(65535, 0, ST7796_HEIGHT - 1, 65535)}

\* st7796_set_window(x1, y1, x2, y2)
St7796SetWindow ==
    /\ \E w \in WindowArgs :
       \E log \in {st7796_set_window(w.x1, w.y1, w.x2, w.y2)} :
          /\ disp_call' = [fn |-> "set_window", area |-> w, log |-> log]
          /\ lcd' = LcdAfter(log)
          /\ panel' = PanelAfter(log)
    /\ UNCHANGED <<disp_flush_enabled, current_orientation, flush_count, sent,
                   suppressed>>
    /\ UNCHANGED <<touchVars, sysVars>>

\* uint32_t pixel counts of st7796_write_color: none, one, one row, the
\* draw buffer, the panel, and 2^31 and 2^31 + 1, whose doubles are beyond
\* 32 bits
PixelCounts ==
    {U32(0, 0), U32(0, 1), ToU32(ST7796_WIDTH),
     ToU32(ST7796_WIDTH * DrawBufRows), ToU32(ST7796_WIDTH * ST7796_HEIGHT),
     U32(32768, 0), U32(32768, 1)}

\* st7796_write_color(color, len) with a NULL or a caller's buffer, which
\* holds frame flush_count + 1
St7796WriteColor ==
    /\ \E len \in PixelCounts, null \in BOOLEAN :
       \E log \in {st7796_write_color([null |-> null, frame |-> flush_count + 1],
                                      len)} :
          /\ disp_call' = [fn |-> "write_color", area |-> NoArea, log |-> log,
                           len |-> len, null |-> null]
          /\ lcd' = LcdAfter(log)
          /\ panel' = PanelAfter(log)
          /\ sent' = sent \cup FramesIn(log)
    /\ UNCHANGED <<disp_flush_enabled, current_orientation, flush_count,
                   suppressed>>
    /\ UNCHANGED <<touchVars, sysVars>>

(***************************************************************************)
(* main.c: the joystick mapping                                            *)
(***************************************************************************)
ADC_MAX_VALUE   == 4095
ADC_CENTER      == 2048
ADC_DEADZONE    == 150
BTN_DEBOUNCE_MS == 50
GPIO_BUTTON_1   == 15
GPIO_BUTTON_2   == 14
GPIO_BUTTON_RESET == 22

\* C integer division, which truncates toward zero (b > 0)
CDiv(a, b) == IF a >= 0 THEN a \div b ELSE -((-a) \div b)

Abs(a) == IF a < 0 THEN -a ELSE a

\* the mapping with one step of lines 342-370 changed at a time
\* (the inverted flag applied to the result of the dead zone as well)
map_adc_with_deadzone_InvertCentre(adc_raw, max_pos, invert) ==
    LET offset == adc_raw - ADC_CENTER
        range  == ADC_CENTER - ADC_DEADZONE
        scaled == IF offset > 0
                  THEN CDiv((offset - ADC_DEADZONE) * CDiv(max_pos, 2), range)
                  ELSE CDiv((offset + ADC_DEADZONE) * CDiv(max_pos, 2), range)
        mapped == CDiv(max_pos, 2) + scaled
        clamped == IF mapped < 0 THEN 0
                   ELSE IF mapped > max_pos THEN max_pos ELSE mapped
    IN  IF Abs(offset) < ADC_DEADZONE
        THEN IF invert THEN max_pos - CDiv(max_pos, 2) ELSE CDiv(max_pos, 2)
        ELSE IF invert THEN max_pos - clamped ELSE clamped

\* (the lower half scaled by the distance from the dead zone, unsigned)
map_adc_with_deadzone_Folded(adc_raw, max_pos, invert) ==
    LET offset == adc_raw - ADC_CENTER
        range  == ADC_CENTER - ADC_DEADZONE
        scaled == IF offset > 0
                  THEN CDiv((offset - ADC_DEADZONE) * CDiv(max_pos, 2), range)
                  ELSE CDiv((-offset - ADC_DEADZONE) * CDiv(max_pos, 2), range)
        mapped == CDiv(max_pos, 2) + scaled
        clamped == IF mapped < 0 THEN 0
                   ELSE IF mapped > max_pos THEN max_pos ELSE mapped
    IN  IF Abs(offset) < ADC_DEADZONE THEN CDiv(max_pos, 2)
        ELSE IF invert THEN max_pos - clamped ELSE clamped

\* (the lower half measured from the far edge of the dead zone)
map_adc_with_deadzone_FarEdge(adc_raw, max_pos, invert) ==
    LET offset == adc_raw - ADC_CENTER
        range  == ADC_CENTER - ADC_DEADZONE
        scaled == IF offset > 0
                  THEN CDiv((offset - ADC_DEADZONE) * CDiv(max_pos, 2), range)
                  ELSE CDiv((offset - ADC_DEADZONE) * CDiv(max_pos, 2), range)
        mapped == CDiv(max_pos, 2) + scaled
        clamped == IF mapped < 0 THEN 0
                   ELSE IF mapped > max_pos THEN max_pos ELSE mapped
    IN  IF Abs(offset) < ADC_DEADZONE THEN CDiv(max_pos, 2)
        ELSE IF invert THEN max_pos - clamped ELSE clamped

\* (the inverted result counted from max_pos - 1)
map_adc_with_deadzone_OffByOne(adc_raw, max_pos, invert) ==
    LET offset == adc_raw - ADC_CENTER
        range  == ADC_CENTER - ADC_DEADZONE
        scaled == IF offset > 0
                  THEN CDiv((offset - ADC_DEADZONE) * CDiv(max_pos, 2), range)
                  ELSE CDiv((offset + ADC_DEADZONE) * CDiv(max_pos, 2), range)
        mapped == CDiv(max_pos, 2) + scaled
        clamped == IF mapped < 0 THEN 0
                   ELSE IF mapped > max_pos THEN max_pos ELSE mapped
    IN  IF Abs(offset) < ADC_DEADZONE THEN CDiv(max_pos, 2)
        ELSE IF invert THEN max_pos - 1 - clamped ELSE clamped

\* (the inverted result negated, not mirrored around max_pos)
map_adc_with_deadzone_Negate(adc_raw, max_pos, invert) ==
    LET offset == adc_raw - ADC_CENTER
        range  == ADC_CENTER - ADC_DEADZONE
        scaled == IF offset > 0
                  THEN CDiv((offset - ADC_DEADZONE) * CDiv(max_pos, 2), range)
                  ELSE CDiv((offset + ADC_DEADZONE) * CDiv(max_pos, 2), range)
        mapped == CDiv(max_pos, 2) + scaled
        clamped == IF mapped < 0 THEN 0
                   ELSE IF mapped > max_pos THEN max_pos ELSE mapped
    IN  IF Abs(offset) < ADC_DEADZONE THEN CDiv(max_pos, 2)
        ELSE IF invert THEN -clamped ELSE clamped

\* lines 342-370
map_adc_with_deadzone(adc_raw, max_pos, invert) ==
    LET offset == adc_raw - ADC_CENTER
        range  == ADC_CENTER - ADC_DEADZONE
        scaled == IF offset > 0
                  THEN CDiv((offset - ADC_DEADZONE) * CDiv(max_pos, 2), range)
                  ELSE CDiv((offset + ADC_DEADZONE) * CDiv(max_pos, 2), range)
        mapped == CDiv(max_pos, 2) + scaled
        clamped == IF mapped < 0 THEN 0
                   ELSE IF mapped > max_pos THEN max_pos ELSE mapped
    IN  IF Abs(offset) < ADC_DEADZONE THEN CDiv(max_pos, 2)
        ELSE IF invert THEN max_pos - clamped ELSE clamped

(***************************************************************************)
(* main.c: main, task0, task1.  lvgl_mutex is a FreeRTOS mutex:            *)
(* xSemaphoreTake(lvgl_mutex, portMAX_DELAY) returns once the caller holds *)
(* it, xSemaphoreGive releases it.                                         *)
(***************************************************************************)
Tasks == {"task0", "task1"}

\* the other task-level steps never run while the interrupt handler runs
\* on task1's core (core 1, where hw_handler enabled the interrupts)
Runs(t) ==
    /\ main_pc = "scheduler"
    /\ t = "task1" => isr.pc = "idle"

\* xSemaphoreTake(lvgl_mutex, portMAX_DELAY) by task t at location `at`
xSemaphoreTake(t, at, next) ==
    /\ Runs(t)
    /\ pc[t] = at
    /\ lvgl_mutex = "free"
    /\ lvgl_mutex' = t
    /\ pc' = [pc EXCEPT ![t] = next]

\* xSemaphoreGive(lvgl_mutex) by task t at location `at`
xSemaphoreGive(t, at, next) ==
    /\ Runs(t)
    /\ pc[t] = at
    /\ lvgl_mutex' = IF lvgl_mutex = t THEN "free" ELSE lvgl_mutex
    /\ pc' = [pc EXCEPT ![t] = next]

\* vTaskDelay by task t at location `at`
vTaskDelay(t, at, next) ==
    /\ Runs(t)
    /\ pc[t] = at
    /\ pc' = [pc EXCEPT ![t] = next]

\* the time since boot when main has initialized the display: st7796_init
\* has slept three times 100 ms in st7796_hw_reset (st7796.c lines 293-299)
\* and 100 ms after each of the two delayed table entries (lines 116-117,
\* 132-134)
BootMs == 3 * 100 + 2 * 100

\* the record of a call of map_adc_with_deadzone
MapCall(adc_raw, max_pos, invert, done, ret) ==
    [adc_raw |-> adc_raw, max_pos |-> max_pos, invert |-> invert,
     done |-> done, ret |-> ret]

\* main.c before main runs, but for the record of the mapping calls
SysInitState ==
    /\ main_pc = "init"
    /\ pc = [task0 |-> "take1", task1 |-> "take"]
    /\ lvgl_mutex = "free"
    /\ screen = "blank"
    /\ ui = [splash_image |-> FALSE, led1 |-> FALSE, led2 |-> FALSE,
             joystick_ball |-> FALSE]
    /\ joystick_enabled = FALSE
    /\ ball = [x |-> 0, y |-> 0]
    /\ joystick_pos = [x |-> 0, y |-> 0]
    /\ irq_enabled = FALSE
    /\ isr = [pc |-> "idle", led |-> 0]
    /\ clock = BootMs
    /\ irq_count = 0
    /\ irq_call = [gpio_pin |-> 0, rising |-> FALSE]
    /\ btn_last_time = [b \in {1, 2} |-> 0]
    /\ led_ui = [b \in {1, 2} |-> FALSE]
    /\ led_gpio = [b \in {1, 2} |-> 0]
    /\ null_calls = {}

SysInit == SysInitState /\ map_call = MapCall(0, 0, FALSE, FALSE, 0)

\* lv_port_indev.c lines 59-64: touchpad_init calls gt911_init and does
\* nothing with its result
touchpad_init(inputs) ==
    /\ \E in \in inputs :
          \E r \in {gt911_init(gt911_dev, in)} :
          /\ gt911_dev' = r.dev
          /\ gt_call' = [fn |-> r.fn, ret |-> r.ret, wrote |-> r.wrote,
                         x |-> r.x, y |-> r.y, pressed |-> r.pressed,
                         bus |-> r.bus, status |-> I2C_FAIL]
    /\ prev_pressed' = FALSE
    /\ UNCHANGED <<gt911_last_x, gt911_last_y, last_x, last_y, indev_data,
                   seen_pressed>>

\* what gt911_init meets at start-up: a bus that cannot be claimed, a chip
\* that answers no read, and a chip that answers every read
BootInputs ==
    {[i2c_init |-> FALSE, rd |-> InitImage]}
    \cup {[i2c_init |-> TRUE, rd |-> r] : r \in {InitImage, InitFailAt(1)}}

\* lines 633-646: the drivers are initialized (line 637: lv_port_indev_init,
\* which calls touchpad_init), the mutex is created; a NULL mutex ends in
\* the tight loop of lines 643-645
MainInit ==
    /\ main_pc = "init"
    /\ touchpad_init(BootInputs)
    /\ \E created \in BOOLEAN :
          main_pc' = IF created THEN "create_tasks" ELSE "halt"
    /\ UNCHANGED <<pc, lvgl_mutex, screen, ui, joystick_enabled, ball,
                   joystick_pos, irq_enabled, isr, clock, irq_count, irq_call,
                   btn_last_time, led_ui, led_gpio, null_calls, map_call>>
    /\ UNCHANGED dispVars

\* lines 648-660: both tasks are created and the scheduler is started
MainStartScheduler ==
    /\ main_pc = "create_tasks"
    /\ main_pc' = "scheduler"
    /\ UNCHANGED <<pc, lvgl_mutex, screen, ui, joystick_enabled, ball,
                   joystick_pos, irq_enabled, isr, clock, irq_count, irq_call,
                   btn_last_time, led_ui, led_gpio, null_calls, map_call>>
    /\ UNCHANGED <<touchVars, dispVars>>

\* what the task steps below leave unchanged besides pc, lvgl_mutex and
\* the variables they name
SysRest(changed) ==
    /\ IF "screen" \in changed THEN TRUE ELSE UNCHANGED screen
    /\ IF "ui" \in changed THEN TRUE ELSE UNCHANGED ui
    /\ IF "joystick_enabled" \in changed THEN TRUE ELSE UNCHANGED joystick_enabled
    /\ IF "ball" \in changed THEN TRUE ELSE UNCHANGED ball
    /\ IF "joystick_pos" \in changed THEN TRUE ELSE UNCHANGED joystick_pos
    /\ IF "irq_enabled" \in changed THEN TRUE ELSE UNCHANGED irq_enabled
    /\ IF "led_ui" \in changed THEN TRUE ELSE UNCHANGED led_ui
    /\ IF "led_gpio" \in changed THEN TRUE ELSE UNCHANGED led_gpio
    /\ IF "null_calls" \in changed THEN TRUE ELSE UNCHANGED null_calls
    /\ IF "lvgl_mutex" \in changed THEN TRUE ELSE UNCHANGED lvgl_mutex
    /\ IF "map_call" \in changed THEN TRUE ELSE UNCHANGED map_call
    /\ UNCHANGED <<main_pc, isr, clock, irq_count, irq_call, btn_last_time>>
    /\ UNCHANGED <<touchVars, dispVars>>

\* a step of task t from `at` to `next` that is no mutex operation
Step(t, at, next) ==
    /\ Runs(t)
    /\ pc[t] = at
    /\ pc' = [pc EXCEPT ![t] = next]

(***************************************************************************)
(* task0, lines 564-616                                                    *)
(***************************************************************************)
\* line 567
T0_Take1 == xSemaphoreTake("task0", "take1", "clean") /\ SysRest({"lvgl_mutex"})

\* line 568: lv_obj_clean(lv_scr_act())
T0_Clean ==
    /\ Step("task0", "clean", "give1")
    /\ screen' = "blank"
    /\ SysRest({"screen"})

\* line 569
T0_Give1 == xSemaphoreGive("task0", "give1", "delay100") /\ SysRest({"lvgl_mutex"})

\* line 571
T0_Delay100 == vTaskDelay("task0", "delay100", "take2") /\ SysRest({})

\* line 574
T0_Take2 == xSemaphoreTake("task0", "take2", "create") /\ SysRest({"lvgl_mutex"})

\* lines 575-579: the splash image and the two menu buttons
T0_Create ==
    /\ Step("task0", "create", "give2")
    /\ ui' = [ui EXCEPT !.splash_image = TRUE]
    /\ screen' = "menu"
    /\ SysRest({"ui", "screen"})

\* line 580
T0_Give2 == xSemaphoreGive("task0", "give2", "check") /\ SysRest({"lvgl_mutex"})

\* line 584: if (joystick_enabled)
T0_Check ==
    /\ Step("task0", "check", IF joystick_enabled THEN "adc_init" ELSE "delay1000")
    /\ SysRest({})

\* line 614
T0_Delay1000 == vTaskDelay("task0", "delay1000", "check") /\ SysRest({})

\* lines 586-589
T0_AdcInit == Step("task0", "adc_init", "adc_read") /\ SysRest({})

\* the raw samples task0 reads: the centre and the upper end
SysAdcSamples == {ADC_CENTER, ADC_MAX_VALUE}

\* lines 596-604: both channels are read and mapped, max_pos = 88
T0_AdcRead ==
    /\ Step("task0", "adc_read", "take3")
    /\ \E adc_x_raw \in SysAdcSamples, adc_y_raw \in SysAdcSamples :
          /\ ball' = [x |-> map_adc_with_deadzone(adc_x_raw, 88, FALSE),
                      y |-> map_adc_with_deadzone(adc_y_raw, 88, TRUE)]
          /\ map_call' = MapCall(adc_y_raw, 88, TRUE, TRUE, ball'.y)
    /\ SysRest({"ball", "map_call"})

\* task0 going on to the position update without taking the mutex
T0_Take3_NoLock == Step("task0", "take3", "set_pos") /\ SysRest({})

\* line 607
T0_Take3 == xSemaphoreTake("task0", "take3", "set_pos") /\ SysRest({"lvgl_mutex"})

\* line 608: lv_obj_set_pos(joystick_ball, ball_x, ball_y)
T0_SetPos ==
    /\ Step("task0", "set_pos", "give3")
    /\ IF ui.joystick_ball
       THEN joystick_pos' = ball /\ UNCHANGED null_calls
       ELSE null_calls' = null_calls \cup {"lv_obj_set_pos"} /\ UNCHANGED joystick_pos
    /\ SysRest({"joystick_pos", "null_calls"})

\* task0 going to its 200 ms sleep without releasing the mutex
T0_Give3_Keep == Step("task0", "give3", "delay200") /\ SysRest({})

\* line 609
T0_Give3 == xSemaphoreGive("task0", "give3", "delay200") /\ SysRest({"lvgl_mutex"})

\* line 611
T0_Delay200 == vTaskDelay("task0", "delay200", "adc_read") /\ SysRest({})

(***************************************************************************)
(* task1, lines 618-629, and the event handlers lv_task_handler calls      *)
(***************************************************************************)
\* task1 entering lv_task_handler without taking the mutex
T1_Take_NoLock == Step("task1", "take", "handler") /\ SysRest({})

\* line 623
T1_Take == xSemaphoreTake("task1", "take", "handler") /\ SysRest({"lvgl_mutex"})

\* line 624: lv_task_handler() dispatching no click
T1_Handler ==
    /\ Step("task1", "handler", "give")
    /\ SysRest({})

\* lv_task_handler() dispatching a click on "Hardware Demo": hw_handler,
\* lines 517-524 (the splash image is deleted, the screen cleaned)
T1_HwClicked ==
    /\ screen = "menu"
    /\ Step("task1", "handler", "hw_irq")
    /\ ui' = [ui EXCEPT !.splash_image = FALSE]
    /\ screen' = "blank"
    /\ SysRest({"ui", "screen"})

\* init_hardware_peripherals, lines 378-392: the button interrupts are
\* enabled with on_button_interrupt as their callback
T1_HwEnableIrq ==
    /\ Step("task1", "hw_irq", "hw_gpio")
    /\ irq_enabled' = TRUE
    /\ SysRest({"irq_enabled"})

\* init_hardware_peripherals, lines 395-403: both LED pins are driven low,
\* joystick_enabled = true
T1_HwGpio ==
    /\ Step("task1", "hw_gpio", "hw_ui")
    /\ led_gpio' = [b \in {1, 2} |-> 0]
    /\ joystick_enabled' = TRUE
    /\ SysRest({"led_gpio", "joystick_enabled"})

\* create_hardware_ui, lines 409-485: led1, led2 (off) and joystick_ball
\* (at 44,44) are created
T1_HwCreateUi ==
    /\ Step("task1", "hw_ui", "give")
    /\ ui' = [ui EXCEPT !.led1 = TRUE, !.led2 = TRUE, !.joystick_ball = TRUE]
    /\ led_ui' = [b \in {1, 2} |-> FALSE]
    /\ joystick_pos' = [x |-> 44, y |-> 44]
    /\ screen' = "hw"
    /\ SysRest({"ui", "led_ui", "joystick_pos", "screen"})

\* lv_task_handler() dispatching a click on "Calculator": calculator_handler,
\* lines 173-264
T1_CalcClicked ==
    /\ screen = "menu"
    /\ Step("task1", "handler", "give")
    /\ ui' = [ui EXCEPT !.splash_image = FALSE]
    /\ screen' = "calc"
    /\ SysRest({"ui", "screen"})

\* lv_task_handler() dispatching a click on RESET: reboot_handler, lines
\* 266-280, arms the watchdog and spins
T1_RebootClicked ==
    /\ screen \in {"hw", "calc"}
    /\ Step("task1", "handler", "reboot_spin")
    /\ SysRest({})

\* task1 going to its 5 ms sleep without releasing the mutex
T1_Give_Keep == Step("task1", "give", "delay5") /\ SysRest({})

\* line 625
T1_Give == xSemaphoreGive("task1", "give", "delay5") /\ SysRest({"lvgl_mutex"})

\* line 627
T1_Delay5 == vTaskDelay("task1", "delay5", "take") /\ SysRest({})

(***************************************************************************)
(* on_button_interrupt, lines 490-513                                      *)
(***************************************************************************)
\* the LED a button pin stands for (0: none)
LedOf(gpio_pin) ==
    IF gpio_pin = GPIO_BUTTON_1 THEN 1
    ELSE IF gpio_pin = GPIO_BUTTON_2 THEN 2 ELSE 0

\* the debounce test passing at exactly BTN_DEBOUNCE_MS
on_button_interrupt_AtLeast(gpio_pin, rising, now, last_time) ==
    IF ~rising THEN 0
    ELSE IF LedOf(gpio_pin) = 0 THEN 0
    ELSE IF now - last_time[LedOf(gpio_pin)] >= BTN_DEBOUNCE_MS
    THEN LedOf(gpio_pin) ELSE 0

\* lines 493-512 up to the debounce test: the LED to toggle at time now,
\* 0 when the interrupt is ignored
on_button_interrupt(gpio_pin, rising, now, last_time) ==
    IF ~rising THEN 0
    ELSE IF LedOf(gpio_pin) = 0 THEN 0
    ELSE IF now - last_time[LedOf(gpio_pin)] > BTN_DEBOUNCE_MS
    THEN LedOf(gpio_pin) ELSE 0

\* the interrupts the system specification follows, and the times between
\* two of them
MaxIrq == 2
SysTimeSteps == {25, 50, 51}
ButtonPins == {GPIO_BUTTON_1, GPIO_BUTTON_2, GPIO_BUTTON_RESET}

\* the edges that raise the interrupt (lines 391-393 enable both edges on
\* the three pins): a rising edge on each pin, and a falling edge
IrqEdges ==
    {[gpio_pin |-> p, rising |-> TRUE] : p \in ButtonPins}
    \cup {[gpio_pin |-> GPIO_BUTTON_1, rising |-> FALSE]}

\* the handler storing the time of an accepted edge for both buttons
ButtonIrq_StampBoth ==
    /\ irq_enabled
    /\ isr.pc = "idle"
    /\ irq_count < MaxIrq
    /\ \E edge \in IrqEdges, dt \in SysTimeSteps :
       \E led \in {on_button_interrupt(edge.gpio_pin, edge.rising, clock + dt,
                                        btn_last_time)} :
          /\ clock' = clock + dt
          /\ btn_last_time' = IF led = 0 THEN btn_last_time
                              ELSE [b \in {1, 2} |-> clock + dt]
          /\ isr' = IF led = 0 THEN isr ELSE [pc |-> "lv_led_toggle", led |-> led]
          /\ irq_call' = edge
    /\ irq_count' = irq_count + 1
    /\ UNCHANGED <<main_pc, pc, lvgl_mutex, screen, ui, joystick_enabled, ball,
                   joystick_pos, irq_enabled, led_ui, led_gpio, null_calls,
                   map_call>>
    /\ UNCHANGED <<touchVars, dispVars>>

\* an edge on a button pin: the handler is entered; an accepted rising
\* edge stores the time stamp (lines 500, 508) and goes on to the toggle
ButtonIrq ==
    /\ irq_enabled
    /\ isr.pc = "idle"
    /\ irq_count < MaxIrq
    /\ \E edge \in IrqEdges, dt \in SysTimeSteps :
       \E led \in {on_button_interrupt(edge.gpio_pin, edge.rising, clock + dt,
                                        btn_last_time)} :
          /\ clock' = clock + dt
          /\ btn_last_time' = IF led = 0 THEN btn_last_time
                              ELSE [btn_last_time EXCEPT ![led] = clock + dt]
          /\ isr' = IF led = 0 THEN isr ELSE [pc |-> "lv_led_toggle", led |-> led]
          /\ irq_call' = edge
    /\ irq_count' = irq_count + 1
    /\ UNCHANGED <<main_pc, pc, lvgl_mutex, screen, ui, joystick_enabled, ball,
                   joystick_pos, irq_enabled, led_ui, led_gpio, null_calls,
                   map_call>>
    /\ UNCHANGED <<touchVars, dispVars>>

\* lines 501-502, 509-510: lv_led_toggle(ledN), then the LED pin is
\* inverted, and the handler returns
IsrToggle ==
    /\ isr.pc = "lv_led_toggle"
    /\ IF (isr.led = 1 /\ ui.led1) \/ (isr.led = 2 /\ ui.led2)
       THEN /\ led_ui' = [led_ui EXCEPT ![isr.led] = ~led_ui[isr.led]]
            /\ UNCHANGED null_calls
       ELSE /\ null_calls' = null_calls \cup {"lv_led_toggle"}
            /\ UNCHANGED led_ui
    /\ led_gpio' = [led_gpio EXCEPT ![isr.led] = 1 - led_gpio[isr.led]]
    /\ isr' = [pc |-> "idle", led |-> 0]
    /\ UNCHANGED <<main_pc, pc, lvgl_mutex, screen, ui, joystick_enabled, ball,
                   joystick_pos, irq_enabled, clock, irq_count, irq_call,
                   btn_last_time, map_call>>
    /\ UNCHANGED <<touchVars, dispVars>>

(***************************************************************************)
(* The driver interface of gt911.h as a collaborator may call it: init,    *)
(* read and device info, in any order and any number of times              *)
(***************************************************************************)
\* gt911_init called at any time, as touchpad_init calls it
Gt911Init ==
    /\ touchpad_init(InitInputs)
    /\ UNCHANGED <<dispVars, sysVars>>

\* lines 186-189: gt911_get_dev_info returns &gt911_dev
Gt911GetDevInfo ==
    /\ gt_call' = [NoCall EXCEPT !.fn = "info", !.ret = TRUE]
    /\ prev_pressed' = FALSE
    /\ UNCHANGED <<gt911_dev, gt911_last_x, gt911_last_y, last_x, last_y,
                   indev_data, seen_pressed>>
    /\ UNCHANGED <<dispVars, sysVars>>

(***************************************************************************)
(* The specifications                                                      *)
(***************************************************************************)
Init == TouchInit /\ DispInit /\ SysInit

TouchNext == LvPortIndevInit \/ TouchpadRead

SpecTouch == Init /\ [][TouchNext]_vars

DriverNext == Gt911Init \/ TouchpadRead \/ Gt911GetDevInfo

SpecDriver == Init /\ [][DriverNext]_vars

DispNext == DispFlush \/ DispEnableUpdate \/ DispDisableUpdate

SpecDisp == Init /\ [][DispNext]_vars

LcdNext ==
    St7796Init \/ St7796SetOrientation \/ St7796SetWindow \/ St7796WriteColor

SpecLcd == Init /\ [][LcdNext]_vars

\* map_adc_with_deadzone called with the arguments drawn at the start
MapAdcWithDeadzone ==
    /\ ~map_call.done
    /\ map_call' = [map_call EXCEPT
                       !.done = TRUE,
                       !.ret = map_adc_with_deadzone(map_call.adc_raw,
                                                     map_call.max_pos,
                                                     map_call.invert)]
    /\ UNCHANGED <<main_pc, pc, lvgl_mutex, screen, ui, joystick_enabled, ball,
                   joystick_pos, irq_enabled, isr, clock, irq_count, irq_call,
                   btn_last_time, led_ui, led_gpio, null_calls>>
    /\ UNCHANGED <<touchVars, dispVars>>

\* the arguments of the mapping: every sample of the 12 bit converter, the
\* max_pos of task0 (88) and an odd one, and both directions
AdcRaw == 0..ADC_MAX_VALUE
MaxPosArgs == {88, 89}

MapInit ==
    /\ TouchInit /\ DispInit /\ SysInitState
    /\ map_call \in {MapCall(r, m, i, FALSE, 0) :
                        r \in AdcRaw, m \in MaxPosArgs, i \in BOOLEAN}

MapNext == MapAdcWithDeadzone

SpecMap == MapInit /\ [][MapNext]_vars

\* the largest value of an int (32 bits on this target)
INT_MAX == 2147483647

\* the product a * b of lines 356 and 361 does not fit an int
MulOverflows(a, b) == a # 0 /\ b # 0 /\ Abs(b) > INT_MAX \div Abs(a)

\* the values map_adc_with_deadzone can return: the one of lines 342-370
\* when the product of line 356 or 361 fits an int; when it does not, the
\* signed overflow leaves the product any int (followed: both ends of the
\* range, whose quotients by 1898 are those of the least and the greatest
\* int, and the products around 0), which lines 357-369 then scale, clamp
\* and invert
map_adc_outcomes(adc_raw, max_pos, invert) ==
    LET offset == adc_raw - ADC_CENTER
        range  == ADC_CENTER - ADC_DEADZONE
        factor == IF offset > 0 THEN offset - ADC_DEADZONE
                  ELSE offset + ADC_DEADZONE
        clamp(mapped) == IF mapped < 0 THEN 0
                         ELSE IF mapped > max_pos THEN max_pos ELSE mapped
    IN  IF Abs(offset) >= ADC_DEADZONE /\ MulOverflows(factor, CDiv(max_pos, 2))
        THEN {IF invert
              THEN max_pos - clamp(CDiv(max_pos, 2) + CDiv(product, range))
              ELSE clamp(CDiv(max_pos, 2) + CDiv(product, range)) :
                 product \in {-INT_MAX, -range, -1, 0, 1, range, INT_MAX}}
        ELSE {map_adc_with_deadzone(adc_raw, max_pos, invert)}

\* map_adc_with_deadzone called with any max_pos that is not negative
MapAdcAnyMaxPos ==
    /\ ~map_call.done
    /\ \E ret \in map_adc_outcomes(map_call.adc_raw, map_call.max_pos,
                                   map_call.invert) :
          map_call' = [map_call EXCEPT !.done = TRUE, !.ret = ret]
    /\ UNCHANGED <<main_pc, pc, lvgl_mutex, screen, ui, joystick_enabled, ball,
                   joystick_pos, irq_enabled, isr, clock, irq_count, irq_call,
                   btn_last_time, led_ui, led_gpio, null_calls>>
    /\ UNCHANGED <<touchVars, dispVars>>

\* max_pos from 0 to the largest int: 0, 1, the value of task0, the largest
\* whose product always fits, and INT_MAX
AnyMaxPos == {0, 1, 88, 2 * (INT_MAX \div (ADC_CENTER - ADC_DEADZONE)), INT_MAX}

RangeInit ==
    /\ TouchInit /\ DispInit /\ SysInitState
    /\ map_call \in {MapCall(r, m, i, FALSE, 0) :
                        r \in AdcRaw, m \in AnyMaxPos, i \in BOOLEAN}

RangeNext == MapAdcAnyMaxPos

SpecMapRange == RangeInit /\ [][RangeNext]_vars

SysNext ==
    \/ MainInit \/ MainStartScheduler
    \/ T0_Take1 \/ T0_Clean \/ T0_Give1 \/ T0_Delay100
    \/ T0_Take2 \/ T0_Create \/ T0_Give2
    \/ T0_Check \/ T0_Delay1000 \/ T0_AdcInit \/ T0_AdcRead
    \/ T0_Take3 \/ T0_SetPos \/ T0_Give3 \/ T0_Delay200
    \/ T1_Take \/ T1_Handler \/ T1_HwClicked \/ T1_HwEnableIrq \/ T1_HwGpio
    \/ T1_HwCreateUi \/ T1_CalcClicked \/ T1_RebootClicked
    \/ T1_Give \/ T1_Delay5
    \/ ButtonIrq \/ IsrToggle

SpecSys == Init /\ [][SysNext]_vars

(***************************************************************************)
(* The scheduling of the system.  A task that can run does run (each task  *)
(* has its own loop and blocks only in xSemaphoreTake and vTaskDelay), and *)
(* the interrupt handler runs to its end.  A task blocked in               *)
(* xSemaphoreTake is made ready by the xSemaphoreGive of the holder, which *)
(* then sleeps in vTaskDelay for 5 ms or more (lines 571, 611, 614, 627),  *)
(* so the waiting task takes the mutex before the holder asks for it       *)
(* again: a take that is possible again and again is made.                 *)
(***************************************************************************)
\* the steps of task0 other than xSemaphoreTake
Task0Steps ==
    \/ T0_Clean \/ T0_Give1 \/ T0_Delay100 \/ T0_Create \/ T0_Give2
    \/ T0_Check \/ T0_Delay1000 \/ T0_AdcInit \/ T0_AdcRead
    \/ T0_SetPos \/ T0_Give3 \/ T0_Delay200

\* the steps of task1 other than xSemaphoreTake
Task1Steps ==
    \/ T1_Handler \/ T1_HwClicked \/ T1_HwEnableIrq \/ T1_HwGpio
    \/ T1_HwCreateUi \/ T1_CalcClicked \/ T1_RebootClicked
    \/ T1_Give \/ T1_Delay5

SysFairness ==
    /\ WF_vars(MainInit) /\ WF_vars(MainStartScheduler)
    /\ WF_vars(Task0Steps) /\ WF_vars(Task1Steps)
    /\ SF_vars(T0_Take1 \/ T0_Take2 \/ T0_Take3)
    /\ SF_vars(T1_Take)
    /\ WF_vars(IsrToggle)

\* the interrupt the fair specification follows: the first edge after boot
FirstButtonIrq ==
    /\ irq_count = 0
    /\ ButtonIrq

SysFairNext ==
    \/ MainInit \/ MainStartScheduler
    \/ T0_Take1 \/ T0_Take2 \/ T0_Take3 \/ Task0Steps
    \/ T1_Take \/ Task1Steps
    \/ FirstButtonIrq \/ IsrToggle

SpecSysFair == Init /\ [][SysFairNext]_vars /\ SysFairness

(***************************************************************************)
(* Properties of gt911_read_touch, stated on the record of the most recent *)
(* call (gt_call) and checked under SpecTouch                              *)
(***************************************************************************)
ReadCall == gt_call.fn = "read"

\* the status byte was read successfully by the most recent call
StatusRead == ReadCall /\ gt_call.bus # <<>> /\ gt_call.bus[1].ok

\* the positions of the status-clear writes on the bus
ClearAt == {i \in DOMAIN gt_call.bus : IsClear(gt_call.bus[i])}

Point1Regs ==
    {GT911_REG_PT1_X_L, GT911_REG_PT1_X_H, GT911_REG_PT1_Y_L, GT911_REG_PT1_Y_H}

\* the positions of the point-1 coordinate reads on the bus
PointReadAt ==
    {i \in DOMAIN gt_call.bus :
        gt_call.bus[i].op = "read" /\ gt_call.bus[i].reg \in Point1Regs}

\* the byte the call read from register reg
RegVal(reg) ==
    gt_call.bus[CHOOSE i \in DOMAIN gt_call.bus : IsRead(gt_call.bus[i], reg)].val

\* all four coordinate registers were read, each successfully
FourPointReads ==
    \A reg \in Point1Regs :
        \E i \in DOMAIN gt_call.bus :
            IsRead(gt_call.bus[i], reg) /\ gt_call.bus[i].ok

\* C1: an initialized driver that reads a status byte with bit 7 set or a
\* point count (low 4 bits) below 6 issues exactly one status-clear write
\* (zero to 0x814E) in that call, also when a later coordinate read fails.
C1_ExactlyOneStatusClear ==
    (/\ StatusRead
     /\ gt911_dev.initialized
     /\ \/ gt_call.bus[1].val >= 128
        \/ gt_call.bus[1].val % 16 < 6)
    => Cardinality(ClearAt) = 1

\* a call whose coordinate read failed after the status clear was written
C1_Witness ==
    /\ StatusRead
    /\ gt_call.bus[1].val = 1
    /\ ~gt_call.ret
    /\ Cardinality(ClearAt) = 1
    /\ \E i \in PointReadAt : ~gt_call.bus[i].ok

C8_SingleTouchCoordinates ==
    /\ (StatusRead /\ gt_call.bus[1].val % 16 = 1 /\ FourPointReads)
       => /\ gt_call.ret /\ gt_call.wrote /\ gt_call.pressed
          /\ gt_call.x = RegVal(GT911_REG_PT1_X_L) + 256 * RegVal(GT911_REG_PT1_X_H)
          /\ gt_call.y = RegVal(GT911_REG_PT1_Y_L) + 256 * RegVal(GT911_REG_PT1_Y_H)
          /\ gt911_last_x = gt_call.x
          /\ gt911_last_y = gt_call.y
    /\ (/\ StatusRead /\ gt_call.bus[1].val = 129 /\ FourPointReads
        /\ RegVal(GT911_REG_PT1_X_L) = 100 /\ RegVal(GT911_REG_PT1_X_H) = 0
        /\ RegVal(GT911_REG_PT1_Y_L) = 200 /\ RegVal(GT911_REG_PT1_Y_H) = 0)
       => /\ ClearAt = {2}
          /\ PointReadAt = {3, 4, 5, 6}
          /\ gt_call.ret /\ gt_call.pressed
          /\ gt_call.x = 100 /\ gt_call.y = 200

\* the scenario: status 0x81, point-1 registers (0x64,0x00,0xC8,0x00)
C8_Witness ==
    /\ StatusRead /\ gt_call.bus[1].val = 129 /\ FourPointReads
    /\ RegVal(GT911_REG_PT1_X_L) = 100 /\ RegVal(GT911_REG_PT1_Y_L) = 200
    /\ gt_call.x = 100 /\ gt_call.y = 200 /\ gt_call.pressed

\* C9: once a pressed sample has been observed, every successful call whose
\* point count is not 1 returns pressed = false at the coordinates of the
\* most recent pressed sample, which is also the persisted position.
C9_ReleasedReportsLastPressed ==
    (/\ StatusRead /\ gt_call.ret
     /\ gt_call.bus[1].val % 16 # 1
     /\ seen_pressed.seen)
    => /\ ~gt_call.pressed
       /\ gt_call.x = seen_pressed.x /\ gt_call.y = seen_pressed.y
       /\ gt911_last_x = seen_pressed.x /\ gt911_last_y = seen_pressed.y

\* the call right after a pressed sample at (100,200) read status 0x00
AfterPress100_200_Status00 ==
    /\ StatusRead /\ gt_call.ret
    /\ gt_call.bus[1].val = 0
    /\ prev_pressed
    /\ seen_pressed = [seen |-> TRUE, x |-> 100, y |-> 200]

\* C10 as stated: after a pressed sample at (100,200), the next call, which
\* reads status 0x00, returns (100,200,false) and issues no status-clear
\* write.
C10_Status00NoClear ==
    AfterPress100_200_Status00
    => /\ gt_call.x = 100 /\ gt_call.y = 200 /\ ~gt_call.pressed
       /\ ClearAt = {}

\* C10 amended: that call returns (100,200,false) and issues exactly one
\* status-clear write, right after the status read and as its last
\* transaction (point count 0 is below 6).
C10_Status00OneClear ==
    AfterPress100_200_Status00
    => /\ gt_call.x = 100 /\ gt_call.y = 200 /\ ~gt_call.pressed
       /\ gt_call.wrote
       /\ ClearAt = {2}
       /\ Len(gt_call.bus) = 2

C10_Witness ==
    /\ AfterPress100_200_Status00
    /\ gt_call.x = 100 /\ gt_call.y = 200 /\ ~gt_call.pressed

(***************************************************************************)
(* Properties of disp_flush and the output gate, stated on the record of   *)
(* the most recent display operation (disp_call), checked under SpecDisp   *)
(***************************************************************************)
FlushCall == disp_call.fn = "flush"

\* the positions of the lv_disp_flush_ready calls in the log
ReadyAt == {i \in DOMAIN disp_call.log : disp_call.log[i].ev = "ready"}

\* the level of the DC pin when event i of the log happens (-1: not
\* written earlier in this operation)
DcAt(i) ==
    LET before == {j \in 1..(i - 1) : disp_call.log[j].ev = "dc"} IN
    IF before = {} THEN -1
    ELSE disp_call.log[CHOOSE j \in before : \A k \in before : k <= j].val

\* the SPI transfers of the operation in order, each with the DC level it
\* was sent under and its position in the log
SpiTransfers ==
    SelectSeq([i \in DOMAIN disp_call.log |->
                  [e |-> disp_call.log[i], dc |-> DcAt(i), at |-> i]],
              LAMBDA t : t.e.ev = "spi")

\* C5: every call of disp_flush calls lv_disp_flush_ready exactly once, as
\* the last thing it does, with the output enabled and with it disabled.
C5_FlushReadyExactlyOnce ==
    FlushCall
    => /\ Cardinality(ReadyAt) = 1
       /\ ReadyAt = {Len(disp_call.log)}

\* a flush with the output disabled, after a frame was written to the bus
C5_Witness ==
    /\ FlushCall
    /\ ~disp_flush_enabled
    /\ Cardinality(ReadyAt) = 1
    /\ sent # {}

\* C6: with the output enabled, flush(area, buffer) sends exactly: command
\* 0x2A, data (x1 high, x1 low, x2 high, x2 low), command 0x2B, data (y1
\* high, y1 low, y2 high, y2 low), command 0x2C, then one pixel transfer of
\* 2 * (x2-x1+1) * (y2-y1+1) bytes from its buffer, then the completion
\* signal.
C6_FlushSequence ==
    (FlushCall /\ disp_flush_enabled)
    => LET a == disp_call.area
           t == SpiTransfers
       IN  /\ Len(t) = 6
           /\ t[1].dc = 0 /\ t[1].e.data = <<42>>
           /\ t[2].dc = 1
           /\ t[2].e.data = <<a.x1 \div 256, a.x1 % 256, a.x2 \div 256, a.x2 % 256>>
           /\ t[3].dc = 0 /\ t[3].e.data = <<43>>
           /\ t[4].dc = 1
           /\ t[4].e.data = <<a.y1 \div 256, a.y1 % 256, a.y2 \div 256, a.y2 % 256>>
           /\ t[5].dc = 0 /\ t[5].e.data = <<44>>
           /\ t[6].dc = 1
           /\ t[6].e.frame = flush_count
           /\ t[6].e.len = 2 * (a.x2 - a.x1 + 1) * (a.y2 - a.y1 + 1)
           /\ ReadyAt = {Len(disp_call.log)}
           /\ t[6].at < Len(disp_call.log)

\* an enabled flush of an area of several rows and columns that ends
\* beyond column 255
C6_Witness ==
    /\ FlushCall
    /\ disp_flush_enabled
    /\ disp_call.area.x2 > 255
    /\ disp_call.area.x1 < disp_call.area.x2
    /\ disp_call.area.y1 < disp_call.area.y2
    /\ Len(SpiTransfers) = 6

\* the events of the log that drive a pin or the SPI bus
BusOrPinAt ==
    {i \in DOMAIN disp_call.log :
        disp_call.log[i].ev \in {"cs", "dc", "rst", "spi"}}

\* C7: the gate starts enabled; a flush with the output disabled makes no
\* bus transfer and writes no pin, and its frame never reaches the bus
\* later; a flush sends no frame but its own, and sends it exactly when the
\* output is enabled at the call.
C7_OutputGate ==
    /\ disp_call.fn = "none" => disp_flush_enabled
    /\ (FlushCall /\ ~disp_flush_enabled)
       => /\ BusOrPinAt = {}
          /\ flush_count \in suppressed
    /\ (FlushCall /\ disp_flush_enabled) => flush_count \in sent
    /\ FlushCall => FramesIn(disp_call.log) \subseteq {flush_count}
    /\ sent \cap suppressed = {}

\* a frame was suppressed, the output enabled again, and a later frame sent
C7_Witness ==
    /\ FlushCall
    /\ disp_flush_enabled
    /\ flush_count \in sent
    /\ \E f \in suppressed : f < flush_count

(***************************************************************************)
(* Properties of the tasks, the mutex and the interrupt handler, checked   *)
(* under SpecSys                                                           *)
(***************************************************************************)
\* the locations between a task's xSemaphoreTake and its xSemaphoreGive
CriticalSection(t) ==
    IF t = "task0"
    THEN {"clean", "give1", "create", "give2", "set_pos", "give3"}
    ELSE {"handler", "hw_irq", "hw_gpio", "hw_ui", "give", "reboot_spin"}

\* the locations at which a task is inside a call into the engine
EngineCall(t) ==
    IF t = "task0"
    THEN {"clean", "create", "set_pos"}
    ELSE {"handler", "hw_irq", "hw_gpio", "hw_ui", "reboot_spin"}

\* C3: task0 and task1 are never in their critical sections at the same
\* time, and a task that is in its critical section, in particular in an
\* engine call, holds lvgl_mutex.
C3_MutualExclusion ==
    /\ ~(pc["task0"] \in CriticalSection("task0")
         /\ pc["task1"] \in CriticalSection("task1"))
    /\ \A t \in Tasks :
          pc[t] \in CriticalSection(t) \cup EngineCall(t) => lvgl_mutex = t

\* task0 updates the joystick position while task1 waits for the mutex
C3_Witness ==
    /\ pc["task0"] = "set_pos"
    /\ pc["task1"] = "take"
    /\ lvgl_mutex = "task0"

\* the handler is in lv_led_toggle on an LED object that exists
HandlerInEngine ==
    /\ isr.pc = "lv_led_toggle"
    /\ \/ (isr.led = 1 /\ ui.led1)
       \/ (isr.led = 2 /\ ui.led2)

\* C4: the button interrupt handler never accesses state of the engine
\* while a task holds lvgl_mutex.
C4_HandlerOutsideEngine ==
    ~(HandlerInEngine /\ lvgl_mutex # "free")

(***************************************************************************)
(* Failures of the bus during gt911_read_touch, checked under SpecTouch    *)
(***************************************************************************)
\* the positions of the register reads of the most recent call that failed
FailedReadAt ==
    {i \in DOMAIN gt_call.bus :
        gt_call.bus[i].op = "read" /\ ~gt_call.bus[i].ok}

\* the positions of the bus transactions of the most recent call that failed
FailedAt == {i \in DOMAIN gt_call.bus : ~gt_call.bus[i].ok}

\* C11: a call of gt911_read_touch in which a register read failed, the
\* status read or one of the four coordinate reads, returns false and has
\* assigned none of *x, *y, *pressed; the failed read is its last
\* transaction.
C11_ReadFailureNoOutput ==
    (ReadCall /\ FailedReadAt # {})
    => /\ ~gt_call.ret
       /\ ~gt_call.wrote
       /\ FailedReadAt = {Len(gt_call.bus)}

\* the third coordinate read failed after two that succeeded
C11_Witness ==
    /\ ReadCall
    /\ ~gt_call.ret /\ ~gt_call.wrote
    /\ \E i \in FailedReadAt :
          /\ gt_call.bus[i].reg = GT911_REG_PT1_Y_L
          /\ \A j \in PointReadAt : j < i => gt_call.bus[j].ok

\* C12: a call of gt911_read_touch in which a bus transaction failed, a
\* register read or the status-clear write, returns false.
C12_FailurePropagated ==
    (ReadCall /\ FailedAt # {}) => ~gt_call.ret

(***************************************************************************)
(* touchpad_read and its cache last_x, last_y, checked under SpecTouch     *)
(***************************************************************************)
\* the driver read of the poll that a step makes succeeded with a press
PollPressed == gt_call'.ret /\ gt_call'.pressed

\* C13: every poll whose driver read succeeds with pressed = true gives the
\* engine the state pressed at the sample's coordinates and makes them the
\* cache; every other poll gives the engine the state released at the
\* cached coordinates and leaves the cache as it was.
C13_PollReportsSample ==
    [][gt_call'.fn = "read"
       => IF PollPressed
          THEN /\ indev_data'.state = LV_INDEV_STATE_PR
               /\ indev_data'.point_x = gt_call'.x
               /\ indev_data'.point_y = gt_call'.y
               /\ last_x' = gt_call'.x
               /\ last_y' = gt_call'.y
          ELSE /\ indev_data'.state = LV_INDEV_STATE_REL
               /\ indev_data'.point_x = last_x
               /\ indev_data'.point_y = last_y
               /\ last_x' = last_x
               /\ last_y' = last_y]_vars

\* C14: whenever the driver read of the most recent poll succeeded, the
\* cache of touchpad_read equals the position the driver has persisted.
C14_CacheEqualsDriverPosition ==
    (ReadCall /\ gt_call.ret)
    => /\ last_x = gt911_last_x
       /\ last_y = gt911_last_y

(***************************************************************************)
(* gt911_init and the uninitialized driver, checked under SpecTouch        *)
(***************************************************************************)
InitCall == gt_call.fn = "init"

\* C15: a gt911_init in which a register read failed returns false with
\* that read as its last bus transaction and leaves initialized false; the
\* reads it issues are the ten of the init sequence in order, and
\* initialized is true after it only when all ten were issued and succeeded.
C15_InitStopsAtFirstFailure ==
    InitCall
    => /\ Len(gt_call.bus) <= Len(InitRegs)
       /\ \A i \in DOMAIN gt_call.bus : IsRead(gt_call.bus[i], InitRegs[i])
       /\ FailedAt # {}
          => /\ ~gt_call.ret
             /\ FailedAt = {Len(gt_call.bus)}
             /\ ~gt911_dev.initialized
       /\ gt911_dev.initialized
          => /\ gt_call.ret
             /\ Len(gt_call.bus) = Len(InitRegs)
             /\ FailedAt = {}
       /\ gt_call.ret = gt911_dev.initialized

\* the vendor-id read failed after the product-id reads succeeded
C15_Witness ==
    /\ InitCall
    /\ ~gt_call.ret
    /\ ~gt911_dev.initialized
    /\ Len(gt_call.bus) = 6
    /\ ~gt_call.bus[6].ok
    /\ gt_call.bus[6].reg = GT911_REG_VENDOR_ID

\* gt911_init has just returned false
InitFailed == InitCall /\ ~gt_call.ret

\* a poll that made no bus transaction and reported released at the
\* position the cache has held since start-up
QuietPoll ==
    /\ gt_call.bus = <<>>
    /\ ~gt_call.ret
    /\ ~gt911_dev.initialized
    /\ indev_data.state = LV_INDEV_STATE_REL
    /\ indev_data.point_x = 0 /\ indev_data.point_y = 0
    /\ last_x = 0 /\ last_y = 0

\* C16: once gt911_init has failed, every later poll makes no I2C
\* transaction and reports released at the same, unchanged position.
C16_UninitializedStaysQuiet ==
    [](InitFailed => [](ReadCall => QuietPoll))

\* a poll after an init that failed at a register read
C16_Witness ==
    /\ ReadCall
    /\ ~gt911_dev.initialized
    /\ gt911_dev.product_id[1] # 0
    /\ QuietPoll

(***************************************************************************)
(* Start-up with a driver that could not be initialized, checked under     *)
(* SpecSys                                                                 *)
(***************************************************************************)
\* C17: when the touch driver could not be initialized at start-up (i2c_init
\* failed or gt911_init returned false), main does not go on to create the
\* tasks and start the scheduler.
C17_InitFailureHalts ==
    InitFailed => main_pc \notin {"create_tasks", "scheduler"}

(***************************************************************************)
(* The device record gt911_dev, checked under SpecDriver                   *)
(***************************************************************************)
\* C18: once gt911_dev.initialized is true, no call of gt911_init,
\* gt911_read_touch or gt911_get_dev_info changes a field of gt911_dev; a
\* repeated gt911_init returns true without a bus transaction, and
\* gt911_get_dev_info makes no bus transaction.
C18_DeviceInfoFrozen ==
    [][gt911_dev.initialized
       => /\ gt911_dev' = gt911_dev
          /\ gt_call'.fn = "init" => (gt_call'.ret /\ gt_call'.bus = <<>>)
          /\ gt_call'.fn = "info" => gt_call'.bus = <<>>]_vars

\* a repeated gt911_init on the initialized driver
C18_Witness ==
    /\ gt911_dev.initialized
    /\ InitCall
    /\ gt_call.ret
    /\ gt_call.bus = <<>>

(***************************************************************************)
(* The SPI protocol of st7796.c, stated on the record of the most recent   *)
(* driver operation (disp_call), checked under SpecLcd                     *)
(***************************************************************************)
\* the positions of the SPI transfers in the log
SpiAt == {i \in DOMAIN disp_call.log : disp_call.log[i].ev = "spi"}

\* the level of the CS pin when event i of the log happens; an operation
\* starts with CS as the operation before it left it
CsAt(i) ==
    LET before == {j \in 1..(i - 1) : disp_call.log[j].ev = "cs"} IN
    IF before = {} THEN 1
    ELSE disp_call.log[CHOOSE j \in before : \A k \in before : k <= j].val

\* CS is released between the events i and j of the log
ReleasedBetween(i, j) ==
    \E k \in (i + 1)..(j - 1) :
        disp_call.log[k].ev = "cs" /\ disp_call.log[k].val = 1

\* C19: CS is high whenever a driver operation has returned; every SPI
\* transfer happens with CS low; once a transfer has been made, DC is not
\* written again and no transfer under another DC level is made before CS
\* is released; a command opcode is sent with DC = 0 and every payload,
\* orientation or pixel byte with DC = 1, the level being selected within
\* the operation.
C19_ChipSelectBrackets ==
    /\ lcd.cs = 1
    /\ \A i \in SpiAt :
          /\ CsAt(i) = 0
          /\ DcAt(i) = (IF disp_call.log[i].val = 1 THEN 0 ELSE 1)
          /\ \A j \in DOMAIN disp_call.log :
                (j > i /\ disp_call.log[j].ev = "dc") => ReleasedBetween(i, j)
          /\ \A j \in SpiAt :
                (j > i /\ DcAt(j) # DcAt(i)) => ReleasedBetween(i, j)

\* st7796_set_orientation(ST7796_LANDSCAPE) has returned: a command and a
\* data transaction
C19_Witness ==
    /\ disp_call.fn = "set_orientation"
    /\ current_orientation = ST7796_LANDSCAPE
    /\ Cardinality(SpiAt) = 2
    /\ \E i \in SpiAt : DcAt(i) = 0
    /\ \E i \in SpiAt : DcAt(i) = 1 /\ disp_call.log[i].data = <<40>>
    /\ lcd.cs = 1

\* the positions at which CS is driven low
CsLowAt ==
    {i \in DOMAIN disp_call.log :
        disp_call.log[i].ev = "cs" /\ disp_call.log[i].val = 0}

\* C20: st7796_set_window(x1, y1, x2, y2) makes exactly five transactions,
\* in this order: command 0x2A; data x1 high, x1 low, x2 high, x2 low;
\* command 0x2B; data y1 high, y1 low, y2 high, y2 low; command 0x2C.  It
\* does nothing else: no reset, no completion signal.
C20_SetWindowSequence ==
    disp_call.fn = "set_window"
    => LET a == disp_call.area
           t == SpiTransfers
       IN  /\ Len(t) = 5
           /\ Cardinality(CsLowAt) = 5
           /\ \A i \in {1, 3, 5} : t[i].dc = 0 /\ t[i].e.val = 1
           /\ \A i \in {2, 4} : t[i].dc = 1 /\ t[i].e.val = 0
           /\ t[1].e.data = <<42>>
           /\ t[2].e.data = <<a.x1 \div 256, a.x1 % 256, a.x2 \div 256, a.x2 % 256>>
           /\ t[3].e.data = <<43>>
           /\ t[4].e.data = <<a.y1 \div 256, a.y1 % 256, a.y2 \div 256, a.y2 % 256>>
           /\ t[5].e.data = <<44>>
           /\ \A i \in DOMAIN disp_call.log :
                 disp_call.log[i].ev \in {"cs", "dc", "delay", "spi"}

\* a window with x1 > x2 that reaches beyond the panel
C20_Witness ==
    /\ disp_call.fn = "set_window"
    /\ disp_call.area.x1 = 65535
    /\ disp_call.area.x2 = ST7796_HEIGHT - 1
    /\ disp_call.area.y2 = 65535
    /\ Len(SpiTransfers) = 5

(***************************************************************************)
(* C21: an orientation, then the whole window, then a whole frame          *)
(***************************************************************************)
\* the width of the frame in an orientation: the panel lies on its side in
\* the two landscape orientations
FrameWidth(o) ==
    IF o \in {ST7796_LANDSCAPE, ST7796_LANDSCAPE_INV} THEN ST7796_HEIGHT
    ELSE ST7796_WIDTH

FrameHeight(o) ==
    IF o \in {ST7796_LANDSCAPE, ST7796_LANDSCAPE_INV} THEN ST7796_WIDTH
    ELSE ST7796_HEIGHT

\* the call just made is the write that gave the controller, after the
\* orientation o and the window (0, 0, w-1, h-1) of that orientation, one
\* burst of w*h pixels
FullFrameWritten(o) ==
    /\ disp_call.fn = "write_color"
    /\ disp_call.log # <<>>
    /\ current_orientation = o
    /\ panel.cmd = ST7796_CMD_RAMWR
    /\ panel.xs = 0 /\ panel.xe = FrameWidth(o) - 1
    /\ panel.ys = 0 /\ panel.ye = FrameHeight(o) - 1
    /\ panel.burst = 2 * FrameWidth(o) * FrameHeight(o)
    /\ ~panel.more

\* the number of the panel cell <<column, row>>, -1 outside the panel
PanelCell(a) ==
    IF a[1] \in 0..(ST7796_WIDTH - 1) /\ a[2] \in 0..(ST7796_HEIGHT - 1)
    THEN a[2] * ST7796_WIDTH + a[1]
    ELSE -1

\* C21: for each of the four orientations, after set_orientation, then
\* set_window(0, 0, w-1, h-1), then a write of w*h pixels, the pixels have
\* gone to every cell of the panel exactly once, and in row-major order of
\* the orientation: pixel k lies k mod w unit steps along the frame's row
\* axis and k div w unit steps along its column axis from pixel 0, the row
\* axis being the panel's column axis in the portrait orientations and the
\* panel's row axis in the landscape ones.
C21_FullFrameAddressesEveryPixelOnce ==
    \A o \in {ST7796_PORTRAIT, ST7796_LANDSCAPE, ST7796_PORTRAIT_INV,
              ST7796_LANDSCAPE_INV} :
       FullFrameWritten(o)
       => LET w  == FrameWidth(o)
              n  == FrameWidth(o) * FrameHeight(o)
              a0 == PanelAddr(panel, 0)
              dx == <<PanelAddr(panel, 1)[1] - a0[1],
                      PanelAddr(panel, 1)[2] - a0[2]>>
              dy == <<PanelAddr(panel, w)[1] - a0[1],
                      PanelAddr(panel, w)[2] - a0[2]>>
          IN  /\ {PanelCell(PanelAddr(panel, k)) : k \in 0..(n - 1)}
                    = 0..(ST7796_WIDTH * ST7796_HEIGHT - 1)
              /\ n = ST7796_WIDTH * ST7796_HEIGHT
              /\ IF o \in {ST7796_PORTRAIT, ST7796_PORTRAIT_INV}
                 THEN dx \in {<<1, 0>>, <<-1, 0>>} /\ dy \in {<<0, 1>>, <<0, -1>>}
                 ELSE dx \in {<<0, 1>>, <<0, -1>>} /\ dy \in {<<1, 0>>, <<-1, 0>>}
              /\ \A k \in 0..(n - 1) :
                    PanelAddr(panel, k)
                       = <<a0[1] + (k % w) * dx[1] + (k \div w) * dy[1],
                           a0[2] + (k % w) * dx[2] + (k \div w) * dy[2]>>

\* a whole frame written in the landscape orientation that mirrors both
\* axes, after the orientation and the window were set
C21_Witness ==
    /\ FullFrameWritten(ST7796_LANDSCAPE_INV)
    /\ panel.madctl = 232

(***************************************************************************)
(* C22: the bytes of a pixel write                                         *)
(***************************************************************************)
WriteColorCall == disp_call.fn = "write_color"

\* the bytes on the bus are exactly 2 * n for the uint32_t n: the double
\* has no bit beyond the 32 of the byte count, and its low 32 bits are the
\* count sent
SentTwice(n, bytes) ==
    /\ (2 * n.hi + (2 * n.lo) \div 65536) < 65536
    /\ bytes \div 65536 = 2 * n.hi + (2 * n.lo) \div 65536
    /\ bytes % 65536 = (2 * n.lo) % 65536

\* C22: for every 32 bit pixel count n and buffer, st7796_write_color with
\* n > 0 and a non-null buffer transmits exactly 2 * n bytes in a single
\* chip-select assertion with the data line selected; with n = 0 or a null
\* buffer it makes no bus transfer and changes no control line.
C22_WriteSendsTwoBytesPerPixel ==
    WriteColorCall
    => IF disp_call.len = U32(0, 0) \/ disp_call.null
       THEN disp_call.log = <<>>
       ELSE /\ Len(disp_call.log) = 4
            /\ disp_call.log[1] = LCD_CS_LOW
            /\ disp_call.log[2] = LCD_DC_DATA
            /\ disp_call.log[3].ev = "spi"
            /\ SentTwice(disp_call.len, disp_call.log[3].len)
            /\ disp_call.log[4] = LCD_CS_HIGH

(***************************************************************************)
(* on_button_interrupt, checked under SpecSys.  irq_call holds the         *)
(* arguments of the interrupt a step has taken, clock its time, and        *)
(* btn_last_time[b] the time of the last edge accepted for button b.       *)
(***************************************************************************)
\* the step takes an interrupt
IrqStep == irq_count' = irq_count + 1

\* the interrupt taken is a rising edge on the pin of button b
RisingOn(b) == irq_call'.rising /\ LedOf(irq_call'.gpio_pin) = b

\* the handler goes on to toggle the indicator of button b, having stored
\* the time of the edge
Accepts(b) ==
    /\ isr' = [pc |-> "lv_led_toggle", led |-> b]
    /\ btn_last_time'[b] = clock'

\* the handler returns without a toggle
Ignores == isr' = isr /\ isr.pc = "idle" /\ UNCHANGED btn_last_time

\* the handler, having accepted an edge, toggles the indicator of its
\* button once and returns
TogglesOnce ==
    (isr.pc = "lv_led_toggle" /\ isr' # isr)
    => /\ led_gpio'[isr.led] = 1 - led_gpio[isr.led]
       /\ isr'.pc = "idle"

C24_InterruptFrame ==
    [][/\ (IrqStep /\ (~irq_call'.rising
                       \/ \E b \in {1, 2} :
                             /\ RisingOn(b)
                             /\ clock' - btn_last_time[b] < BTN_DEBOUNCE_MS))
          => Ignores /\ UNCHANGED <<led_ui, led_gpio>>
       /\ \A b \in {1, 2} :
             (IrqStep /\ isr'.pc = "lv_led_toggle" /\ isr'.led = b)
             => /\ RisingOn(b)
                /\ btn_last_time' = [btn_last_time EXCEPT ![b] = clock']
                /\ UNCHANGED <<led_ui, led_gpio>>
       /\ (isr.pc = "lv_led_toggle" /\ isr' # isr)
          => /\ led_gpio' = [led_gpio EXCEPT ![isr.led] = 1 - led_gpio[isr.led]]
             /\ \A b \in {1, 2} \ {isr.led} : led_ui'[b] = led_ui[b]
             /\ UNCHANGED btn_last_time]_vars

\* an edge on button 2 was accepted and toggled 25 ms after one on button 1,
\* whose timestamp and indicator are as that edge left them
C24_Witness ==
    /\ irq_count = 2
    /\ irq_call.rising
    /\ LedOf(irq_call.gpio_pin) = 2
    /\ btn_last_time[2] = clock
    /\ btn_last_time[1] = clock - 25
    /\ isr.pc = "idle"
    /\ led_gpio = [b \in {1, 2} |-> 1]

(***************************************************************************)
(* The mapping of a joystick sample, main.c lines 342-370                  *)
(***************************************************************************)

\* a call of map_adc_with_deadzone has returned
Mapped == map_call.done

\* the sample of the call lies strictly inside the dead zone
InDeadZone(raw) == Abs(raw - ADC_CENTER) < ADC_DEADZONE

\* the sample lies outside the closed band around the centre
OutsideBand(raw) ==
    raw < ADC_CENTER - ADC_DEADZONE \/ raw > ADC_CENTER + ADC_DEADZONE

\* C25: for every sample strictly inside the dead zone, every max_pos and
\* either direction the mapping returns max_pos / 2 (the integer quotient);
\* the sample 2048 with max_pos 88, not inverted, gives 44.
C25_DeadZoneReturnsCentre ==
    /\ (Mapped /\ InDeadZone(map_call.adc_raw))
       => map_call.ret = CDiv(map_call.max_pos, 2)
    /\ (Mapped /\ map_call.adc_raw = 2048 /\ map_call.max_pos = 88
               /\ ~map_call.invert)
       => map_call.ret = 44

\* an inverted call with an odd max_pos and a sample at the last position
\* inside the dead zone has returned the quotient
C25_Witness ==
    /\ Mapped
    /\ map_call.adc_raw = ADC_CENTER + ADC_DEADZONE - 1
    /\ map_call.max_pos = 89
    /\ map_call.invert
    /\ map_call.ret = 44

\* C26: for samples a <= b of 0..4095 that both lie outside
\* [2048 - 150, 2048 + 150], the mapping of a is at most that of b when not
\* inverted and at least that of b when inverted, for the same max_pos.
C26_MonotonicOutsideBand ==
    (Mapped /\ OutsideBand(map_call.adc_raw))
    => \A b \in map_call.adc_raw .. ADC_MAX_VALUE :
          OutsideBand(b)
          => IF map_call.invert
             THEN map_call.ret
                  >= map_adc_with_deadzone(b, map_call.max_pos, TRUE)
             ELSE map_call.ret
                  <= map_adc_with_deadzone(b, map_call.max_pos, FALSE)

\* the lowest sample left of the band was mapped to 0, below the first sample
\* right of the band, which maps to the centre
C26_Witness ==
    /\ Mapped
    /\ map_call.adc_raw = 0
    /\ map_call.max_pos = 88
    /\ ~map_call.invert
    /\ map_call.ret = 0
    /\ map_adc_with_deadzone(ADC_CENTER + ADC_DEADZONE + 1, 88, FALSE) = 44

\* the call map(raw, 88, invert) has returned
Mapped88(raw, invert) ==
    /\ Mapped
    /\ map_call.adc_raw = raw
    /\ map_call.max_pos = 88
    /\ map_call.invert = invert

\* C27 as stated: map(2048 - 151, 88, false) = 0.
C27_PastNegativeEdgeIsMinimum ==
    Mapped88(ADC_CENTER - 151, FALSE) => map_call.ret = 0

\* C27: map(2048 - 151, 88, false) = 44: one sample past the negative edge of
\* the dead zone the scaled distance is still 0 and the mapping returns the
\* centre.
C27_PastNegativeEdgeIsCentre ==
    Mapped88(ADC_CENTER - 151, FALSE) => map_call.ret = 44

\* map(2048 - 151, 88, false) has returned 44
C27_Witness ==
    Mapped88(ADC_CENTER - 151, FALSE) /\ map_call.ret = 44

\* C28: for every sample of 0..4095, map(raw, 88, true) is
\* 88 - map(raw, 88, false); so it is for the sample 2048 + 151.
C28_InvertMirrors ==
    /\ \A raw \in AdcRaw :
          Mapped88(raw, TRUE)
          => map_call.ret = 88 - map_adc_with_deadzone(raw, 88, FALSE)
    /\ Mapped88(ADC_CENTER + 151, TRUE)
       => map_call.ret
          = 88 - map_adc_with_deadzone(ADC_CENTER + 151, 88, FALSE)

\* the inverted mapping of the highest sample has returned 1, while the
\* mapping of that sample not inverted is 87
C28_Witness ==
    /\ Mapped88(ADC_MAX_VALUE, TRUE)
    /\ map_call.ret = 1
    /\ map_adc_with_deadzone(ADC_MAX_VALUE, 88, FALSE) = 87

\* C29: with max_pos 88 and not inverted, the lowest sample 0 maps to 0 and
\* the highest sample 4095 maps to 88.
C29_FullRange ==
    /\ Mapped88(0, FALSE) => map_call.ret = 0
    /\ Mapped88(ADC_MAX_VALUE, FALSE) => map_call.ret = 88

(***************************************************************************)
(* The initialisation of the display, st7796.c lines 61-145, stated on the *)
(* record of st7796_init (disp_call), checked under SpecLcd                *)
(***************************************************************************)
DisplayInitCall == disp_call.fn = "init"

\* the levels written to the reset line, in order, with their positions
RstWrites ==
    SelectSeq([i \in DOMAIN disp_call.log |->
                  [val |-> disp_call.log[i].val, at |-> i,
                   ev |-> disp_call.log[i].ev]],
              LAMBDA w : w.ev = "rst")

RECURSIVE Concat(_)
\* the bytes of a sequence of transfers
Concat(ts) == IF ts = <<>> THEN <<>> ELSE Head(ts).e.data \o Concat(Tail(ts))

\* the bytes sent under DC high after the n-th command byte of the
\* transfers T and before the next one (C: the command bytes of T)
PayloadOf(T, C, n) ==
    Concat(SelectSeq(T, LAMBDA t :
              /\ t.dc = 1
              /\ t.at > C[n].at
              /\ (n < Len(C) => t.at < C[n + 1].at)))

\* the number of entries of the table before its end marker, and the
\* payload an entry declares
InitEntries == Len(init_cmds) - 1
DeclaredLen(c) == c.databytes % 32

\* C30: st7796_init first drives the reset line high, low, high; then sends
\* the 24 entries of the table once each in table order, each command byte
\* followed by its declared payload bytes (at most 16) and nothing else;
\* sends nothing of the end marker; then sends MADCTL with the byte 0x48
\* and records the orientation Portrait; and sends INVON as its last
\* transfer.
C30_InitSequence ==
    DisplayInitCall
    => \E T \in {SpiTransfers} :
       \E C \in {SelectSeq(T, LAMBDA t : t.dc = 0)} :
       \E R \in {RstWrites} :
          /\ Len(R) >= 3
          /\ R[Len(R) - 2].val = 1 /\ R[Len(R) - 1].val = 0
          /\ R[Len(R)].val = 1
          /\ \A k \in 1..(Len(R) - 2) : R[k].val = 1
          /\ R[Len(R)].at < T[1].at
          /\ InitEntries = 24
          /\ init_cmds[InitEntries + 1].databytes = 255
          /\ Len(C) = InitEntries + 2
          /\ T[1].dc = 0
          /\ \A n \in 1..InitEntries :
                /\ C[n].e.data = <<init_cmds[n].cmd>>
                /\ DeclaredLen(init_cmds[n]) <= 16
                /\ PayloadOf(T, C, n)
                   = DataBytes(init_cmds[n].data, DeclaredLen(init_cmds[n]))
          /\ C[InitEntries + 1].e.data = <<ST7796_CMD_MADCTL>>
          /\ PayloadOf(T, C, InitEntries + 1) = <<72>>
          /\ current_orientation = ST7796_PORTRAIT
          /\ C[InitEntries + 2].e.data = <<ST7796_CMD_INVON>>
          /\ T[Len(T)] = C[InitEntries + 2]

\* st7796_init has run after another orientation had been set: the panel
\* holds the Portrait control byte and the last command it received is INVON
C30_Witness ==
    /\ DisplayInitCall
    /\ Len(disp_call.log) > 100
    /\ current_orientation = ST7796_PORTRAIT
    /\ panel.madctl = 72
    /\ panel.cmd = ST7796_CMD_INVON
    /\ lcd.rst = 1

(***************************************************************************)
(* The settling delays of the bus transactions, st7796.c lines 229-284,    *)
(* stated on the record of the most recent driver operation                *)
(***************************************************************************)
\* the event that asserts CS for the transfer at position i of the log,
\* and the one that releases it (0: none)
AssertedAt(i) ==
    LET before == {j \in 1..(i - 1) : disp_call.log[j].ev = "cs"} IN
    IF before = {} THEN 0 ELSE CHOOSE j \in before : \A k \in before : k <= j

ReleasedAt(i) ==
    LET after == {j \in (i + 1)..Len(disp_call.log) :
                     disp_call.log[j].ev = "cs"} IN
    IF after = {} THEN 0 ELSE CHOOSE j \in after : \A k \in after : j <= k

\* a delay is made at position k of the log
DelayAt(k) == k \in DOMAIN disp_call.log /\ disp_call.log[k].ev = "delay"

\* the transfer at i is bracketed: after CS is asserted and DC is written
\* the next thing is a delay, and a delay is the last thing before CS is
\* released
Bracketed(i) ==
    /\ AssertedAt(i) > 0 /\ ReleasedAt(i) > 0
    /\ \/ DelayAt(AssertedAt(i) + 1)
       \/ /\ disp_call.log[AssertedAt(i) + 1].ev = "dc"
          /\ DelayAt(AssertedAt(i) + 2)
    /\ DelayAt(ReleasedAt(i) - 1)

\* no delay is made while CS is asserted for the transfer at i
Undelayed(i) ==
    \A k \in (AssertedAt(i) + 1)..(ReleasedAt(i) - 1) : ~DelayAt(k)

\* C31: in every transaction that sends a command byte a settling delay is
\* made right after CS is asserted and right before it is released, and in
\* no transaction that sends data (command payload, the orientation byte,
\* pixels) is a delay made.
C31_DelaysBracketCommandsOnly ==
    \A i \in SpiAt :
        IF DcAt(i) = 0 THEN Bracketed(i) ELSE Undelayed(i)

(***************************************************************************)
(* The window the controller holds after the driver has transmitted one,   *)
(* st7796.c lines 199-221 and lv_port_disp.c lines 159-168                 *)
(***************************************************************************)
\* the most recent operation transmitted a window
WindowSent ==
    /\ disp_call.fn \in {"set_window", "flush"}
    /\ SpiAt # {}

\* C32: every window transmitted by st7796_set_window or by a flush has
\* x1 <= x2, y1 <= y2, x2 <= 319 and y2 <= 479.
C32_WindowInsidePanel ==
    WindowSent
    => /\ panel.xs <= panel.xe
       /\ panel.ys <= panel.ye
       /\ panel.xe <= ST7796_WIDTH - 1
       /\ panel.ye <= ST7796_HEIGHT - 1

(***************************************************************************)
(* The sleeps of the tasks, main.c lines 564-629, checked under SpecSys    *)
(***************************************************************************)
\* the locations at which a task is in vTaskDelay
Sleeping(t) ==
    IF t = "task0" THEN {"delay100", "delay1000", "delay200"} ELSE {"delay5"}

\* the locations of task1 inside its one call of lv_task_handler
InTaskHandler == {"handler", "hw_irq", "hw_gpio", "hw_ui", "reboot_spin"}

\* C33: no task is in vTaskDelay while it holds lvgl_mutex; task1 enters
\* lv_task_handler only by the step that acquires the mutex, so once per
\* acquisition, and the step by which it releases the mutex takes it to its
\* 5 ms sleep; task0 enters each of its sleeps not holding the mutex.
C33_NoSleepUnderLock ==
    /\ [](\A t \in Tasks : pc[t] \in Sleeping(t) => lvgl_mutex # t)
    /\ [][/\ (pc'["task1"] \in InTaskHandler /\ pc["task1"] \notin InTaskHandler)
             => /\ pc["task1"] = "take"
                /\ lvgl_mutex = "free"
                /\ lvgl_mutex' = "task1"
          /\ (lvgl_mutex = "task1" /\ lvgl_mutex' # "task1")
             => /\ pc["task1"] = "give"
                /\ pc'["task1"] = "delay5"
                /\ lvgl_mutex' = "free"
          /\ (pc'["task1"] = "delay5" /\ pc["task1"] # "delay5")
             => pc["task1"] = "give"
          /\ (pc'["task0"] \in Sleeping("task0")
              /\ pc["task0"] \notin Sleeping("task0"))
             => lvgl_mutex' # "task0"]_vars

\* both tasks sleep, task0 after a position update and task1 after a
\* processing step, and the mutex is free
C33_Witness ==
    /\ pc["task0"] = "delay200"
    /\ pc["task1"] = "delay5"
    /\ lvgl_mutex = "free"
    /\ ui.joystick_ball

\* C34: for every sample of 0..4095, every max_pos that is not negative
\* and either direction, the value the mapping returns is at least 0 and at
\* most max_pos.
C34_ResultInRange ==
    Mapped => (0 <= map_call.ret /\ map_call.ret <= map_call.max_pos)

\* the inverted mapping of the lowest sample with the largest max_pos,
\* whose product does not fit an int, has returned the mirror image of the
\* centre less the least quotient
C34_Witness ==
    /\ Mapped
    /\ map_call.adc_raw = 0
    /\ map_call.max_pos = INT_MAX
    /\ map_call.invert
    /\ MulOverflows(-ADC_CENTER + ADC_DEADZONE, CDiv(INT_MAX, 2))
    /\ map_call.ret
       = INT_MAX - (CDiv(INT_MAX, 2)
                    + CDiv(-INT_MAX, ADC_CENTER - ADC_DEADZONE))

(***************************************************************************)
(* The position gt911_read_touch keeps between calls (its static last_x    *)
(* and last_y, gt911.c lines 118-119), checked under SpecTouch             *)
(***************************************************************************)
\* C35: a call of gt911_read_touch that returns false leaves the kept
\* position, x and y, as it was before the call.
C35_FailedReadKeepsPosition ==
    [][(gt_call'.fn = "read" /\ ~gt_call'.ret)
       => UNCHANGED <<gt911_last_x, gt911_last_y>>]_vars

(***************************************************************************)
(* The objects of the hardware screen (led1, led2, joystick_ball, main.c   *)
(* lines 50-54) and the code that uses them, checked under SpecSys         *)
(***************************************************************************)
\* C36: the interrupt handler calls lv_led_toggle only when led1 and led2
\* have been created.
C36_ToggleOnlyCreatedIndicators ==
    isr.pc = "lv_led_toggle" => (ui.led1 /\ ui.led2)

\* C37: whenever task0 is at lv_obj_set_pos(joystick_ball, ...), under the
\* mutex, joystick_ball has been created, and no call of lv_obj_set_pos
\* on a NULL object has been made.
C37_PositionUpdateOnCreatedBall ==
    /\ pc["task0"] = "set_pos" => (lvgl_mutex = "task0" /\ ui.joystick_ball)
    /\ "lv_obj_set_pos" \notin null_calls

\* task0 is at the position update, holding a sample that is not the
\* position create_hardware_ui gave the ball, and task1 waits for the mutex
C37_Witness ==
    /\ pc["task0"] = "set_pos"
    /\ pc["task1"] = "take"
    /\ ui.joystick_ball
    /\ joystick_pos = [x |-> 44, y |-> 44]
    /\ ball # joystick_pos

(***************************************************************************)
(* Progress of the tasks around lvgl_mutex, checked under SpecSysFair      *)
(***************************************************************************)
\* reboot_handler has armed the watchdog and spins (lines 273-278)
Rebooting == pc["task1"] = "reboot_spin"

\* the locations at which a task is in xSemaphoreTake
Taking(t) == IF t = "task0" THEN {"take1", "take2", "take3"} ELSE {"take"}

\* C38: unless a reboot has been requested, a task that holds lvgl_mutex
\* eventually releases it, and a task that waits for it under the running
\* scheduler eventually holds it; so task0 does behind task1's loop.
C38_LockProgress ==
    /\ \A t \in Tasks :
          (lvgl_mutex = t) ~> (lvgl_mutex # t \/ Rebooting)
    /\ \A t \in Tasks :
          (main_pc = "scheduler" /\ pc[t] \in Taking(t))
          ~> (lvgl_mutex = t \/ Rebooting)

\* task0 waits for the mutex to update the position while task1 holds it
\* at the end of a processing step
C38_Witness ==
    /\ pc["task0"] = "take3"
    /\ pc["task1"] = "give"
    /\ lvgl_mutex = "task1"
    /\ screen = "hw"

(***************************************************************************)
(* gt911_read_touch on a status byte that asks for no clear (gt911.c       *)
(* lines 131-138, 171-179), checked under SpecTouch                        *)
(***************************************************************************)
\* the call made by this step read a status byte with bit 7 clear and a
\* point count of 6..15
ReadStale ==
    /\ gt_call'.fn = "read"
    /\ gt_call'.bus # <<>>
    /\ gt_call'.bus[1].ok
    /\ gt_call'.status \in 0..127
    /\ gt_call'.status % 16 \in 6..15

\* C39: a call of gt911_read_touch that reads a status byte with bit 7
\* clear and a point count of 6..15 makes no bus write and no coordinate
\* read (the status read is its only transaction), and returns true with
\* the position kept before the call and pressed = false.
C39_StaleStatusReadsNothing ==
    [][ReadStale
       => /\ Len(gt_call'.bus) = 1
          /\ IsRead(gt_call'.bus[1], GT911_REG_STATUS)
          /\ \A i \in DOMAIN gt_call'.bus :
                /\ gt_call'.bus[i].op # "write"
                /\ gt_call'.bus[i].reg \notin Point1Regs
          /\ gt_call'.ret
          /\ ~gt_call'.pressed
          /\ gt_call'.x = gt911_last_x
          /\ gt_call'.y = gt911_last_y
          /\ UNCHANGED <<gt911_last_x, gt911_last_y>>]_vars

\* after a touch at (300, 400), a call that read the status byte 0x76 has
\* returned that position, not pressed, with one bus transaction
C39_Witness ==
    /\ ReadCall
    /\ gt_call.status = 118
    /\ Len(gt_call.bus) = 1
    /\ gt_call.ret
    /\ ~gt_call.pressed
    /\ gt_call.x = 300
    /\ gt_call.y = 400

====
